---- MODULE Spec2Model ----
(***************************************************************************)
(* Model of the maker_web request/response engine: the accept loop and the *)
(* two queues (server_impl.rs), the pre-spawned workers with their         *)
(* connection filter, and the per-connection loop of HttpConnection        *)
(* (connection.rs) together with the state changes the request parser      *)
(* makes to Request and Response (request.rs, response.rs, errors.rs).     *)
(***************************************************************************)
EXTENDS Integers, Sequences, FiniteSets, TLC

(* ------------------------------ bounds --------------------------------- *)

\* ServerLimits.max_connections: number of workers spawned by build()
MaxConnections == 2
\* ServerLimits.max_pending_connections
MaxPendingConnections == 1
\* number of streams the listener accepts in a run of the model
MaxStreams == 2
\* ConnLimits.max_requests_per_connection
ConnMaxRequests == 2
\* Http09Limits.max_requests_per_connection
Http09MaxRequests == 3
\* ConnLimits.connection_lifetime, in clock ticks
ConnLifetime == 1
\* Http09Limits.connection_lifetime, in clock ticks
Http09Lifetime == 0
\* the largest ServerLimits.count_503_handlers a run of the model is built with
Max503Handlers == 2
\* number of streams the listener accepts in a run under fair scheduling
MaxFairStreams == 3

\* ReqLimits.header_count: the header lines a request may have
MaxHeaderLines == 2
MaxPathLen == 7
\* the longest query string handed to Query::parse
MaxQueryLen == 4
\* the reads one Parser serves before the model looks away
MaxReads == 2
\* number of builder calls made on one Response
MaxCalls == 3
\* the longest body written into a Response, in units of 10^9 bytes
MaxBodyGiga == 10

\* the clock of a connection is observed up to one tick past the longest lifetime
MaxElapsed == (IF ConnLifetime > Http09Lifetime THEN ConnLifetime ELSE Http09Lifetime) + 1

(* ------------------------------ types ---------------------------------- *)

Workers == 1 .. MaxConnections
\* the 503 responders a build can spawn: count_503_handlers of them, or a
\* single silent one
Alarmists == 1 .. (IF Max503Handlers = 0 THEN 1 ELSE Max503Handlers)
Streams == 1 .. (IF MaxStreams > MaxFairStreams THEN MaxStreams ELSE MaxFairStreams)
NoStream == 0

Versions == {"Http11", "Http10", "Http09"}

\* ErrorKind variants a parse can return
ParseErrors ==
    {"InvalidMethod", "InvalidUrl", "Query", "InvalidVersion", "UnsupportedVersion",
     "InvalidHeader", "TooManyHeaders", "InvalidContentLength", "InvalidConnection",
     "BodyTooLarge", "BodyMismatch", "UnexpectedBody"}
NoError == "none"

\* errors raised by parse_headers and by check_body
HeaderErrors ==
    {"InvalidHeader", "TooManyHeaders", "InvalidContentLength", "InvalidConnection",
     "BodyTooLarge"}
BodyErrors == {"BodyMismatch", "UnexpectedBody"}

(* ------------------------- canned error responses ---------------------- *)

\* http_errors!: the status line of each ErrorKind
StatusOf(kind) ==
    CASE kind = "UnsupportedVersion" -> "505 HTTP Version Not Supported"
      [] kind = "TooManyHeaders" -> "431 Request Header Fields Too Large"
      [] kind = "BodyTooLarge" -> "413 Payload Too Large"
      [] kind \in {"ServiceUnavailable", "Io"} -> "503 Service Unavailable"
      [] OTHER -> "400 Bad Request"

\* mutant of as_http: the version argument is ignored
as_http_fixed_version(kind, version, json) ==
    [line |-> "Http11", status |-> StatusOf(kind),
     body |-> IF json THEN kind ELSE "empty"]

\* ErrorKind::as_http: the canned response for (json, kind, version)
as_http(kind, version, json) ==
    IF version = "Http09"
    THEN [line |-> "Http09", status |-> StatusOf(kind), body |-> "ERROR"]
    ELSE [line |-> version, status |-> StatusOf(kind),
          body |-> IF json THEN kind ELSE "empty"]

NoCanned == [line |-> "none", status |-> "none", body |-> "none"]

\* every ErrorKind variant
ErrorKinds == ParseErrors \cup {"ServiceUnavailable", "Io"}

\* http_errors!: the $len literal of each ErrorKind
LenOf(kind) ==
    CASE kind = "InvalidMethod" -> "55"
      [] kind = "InvalidUrl" -> "51"
      [] kind = "Query" -> "55"
      [] kind = "InvalidVersion" -> "57"
      [] kind = "UnsupportedVersion" -> "67"
      [] kind = "InvalidHeader" -> "57"
      [] kind = "TooManyHeaders" -> "54"
      [] kind = "InvalidContentLength" -> "66"
      [] kind = "InvalidConnection" -> "65"
      [] kind = "BodyTooLarge" -> "58"
      [] kind = "BodyMismatch" -> "55"
      [] kind = "UnexpectedBody" -> "60"
      [] kind = "ServiceUnavailable" -> "72"
      [] kind = "Io" -> "48"

\* http_errors!: the $json literal of each ErrorKind
JsonOf(kind) ==
    CASE kind = "InvalidMethod" ->
           "{\"error\":\"Invalid HTTP method\",\"code\":\"INVALID_METHOD\"}"
      [] kind = "InvalidUrl" ->
           "{\"error\":\"Invalid URL format\",\"code\":\"INVALID_URL\"}"
      [] kind = "Query" ->
           "{\"error\":\"Invalid query string\",\"code\":\"INVALID_QUERY\"}"
      [] kind = "InvalidVersion" ->
           "{\"error\":\"Invalid HTTP version\",\"code\":\"INVALID_VERSION\"}"
      [] kind = "UnsupportedVersion" ->
           "{\"error\":\"HTTP version not supported\",\"code\":\"UNSUPPORTED_VERSION\"}"
      [] kind = "InvalidHeader" ->
           "{\"error\":\"Invalid header format\",\"code\":\"INVALID_HEADER\"}"
      [] kind = "TooManyHeaders" ->
           "{\"error\":\"Too many headers\",\"code\":\"TOO_MANY_HEADERS\"}"
      [] kind = "InvalidContentLength" ->
           "{\"error\":\"Invalid Content-Length\",\"code\":\"INVALID_CONTENT_LENGTH\"}"
      [] kind = "InvalidConnection" ->
           "{\"error\":\"Invalid Connection header\",\"code\":\"INVALID_CONNECTION\"}"
      [] kind = "BodyTooLarge" ->
           "{\"error\":\"Request body too large\",\"code\":\"BODY_TOO_LARGE\"}"
      [] kind = "BodyMismatch" ->
           "{\"error\":\"Body length mismatch\",\"code\":\"BODY_MISMATCH\"}"
      [] kind = "UnexpectedBody" ->
           "{\"error\":\"Unexpected request body\",\"code\":\"UNEXPECTED_BODY\"}"
      [] kind = "ServiceUnavailable" ->
           "{\"error\":\"Service temporarily unavailable\",\"code\":\"SERVICE_UNAVAILABLE\"}"
      [] kind = "Io" ->
           "{\"error\":\"I/O error occurred\",\"code\":\"IO_ERROR\"}"

\* stringify!($status_code): the tokens of the string literal, its quotes too
stringify(status_code) == "\"" \o status_code \o "\""

\* the first line of a canned HTTP/1.x response
VersionLine(version) == IF version = "Http11" THEN "HTTP/1.1 " ELSE "HTTP/1.0 "

\* mutant of the bytes of as_http: every JSON body is announced with the
\* length of the body of InvalidMethod
as_bytes_one_length(kind, version, json) ==
    IF version = "Http09" THEN "ERROR: " \o stringify(StatusOf(kind))
    ELSE IF json
    THEN VersionLine(version) \o StatusOf(kind) \o "\r\n"
           \o "connection: close\r\n"
           \o "content-length: " \o LenOf("InvalidMethod") \o "\r\n"
           \o "content-type: application/json\r\n"
           \o "\r\n"
           \o JsonOf(kind)
    ELSE VersionLine(version) \o StatusOf(kind) \o "\r\n"
           \o "connection: close\r\n"
           \o "content-length: 0\r\n\r\n"

\* ErrorKind::as_http: the bytes concat! makes for (json, kind, version)
as_bytes(kind, version, json) ==
    IF version = "Http09" THEN "ERROR: " \o stringify(StatusOf(kind))
    ELSE IF json
    THEN VersionLine(version) \o StatusOf(kind) \o "\r\n"
           \o "connection: close\r\n"
           \o "content-length: " \o LenOf(kind) \o "\r\n"
           \o "content-type: application/json\r\n"
           \o "\r\n"
           \o JsonOf(kind)
    ELSE VersionLine(version) \o StatusOf(kind) \o "\r\n"
           \o "connection: close\r\n"
           \o "content-length: 0\r\n\r\n"

\* a stream closed without a byte written to it
Dropped == [line |-> "dropped", status |-> "dropped", body |-> "dropped"]

(* ------------------------------ requests ------------------------------- *)

\* What one socket read delivers, as far as the parser tells requests apart:
\*   method     "Get", "Post" (any other supported method) or "Invalid"
\*   form       the version token of the request line; "Http09" is a line
\*              that ends right after the path
\*   marker     the path starts with /keep_alive
\*   connection the Connection header
\*   defect     the first error the parser meets, if any
Req(method, form, marker, connection, defect) ==
    [method |-> method, form |-> form, marker |-> marker,
     connection |-> connection, defect |-> defect]

\* the requests a peer sends in a run of the model
Requests ==
    \* well-formed HTTP/1.x requests
    { Req("Get", f, FALSE, c, NoError) :
        f \in {"Http11", "Http10"}, c \in {"none", "keep-alive", "close"} }
    \* HTTP/0.9+ request lines, with GET and with another method
    \cup { Req("Get", "Http09", m, "none", NoError) : m \in BOOLEAN }
    \cup { Req("Post", "Http09", FALSE, "none", NoError) }
    \* requests that fail on the request line
    \cup { Req("Invalid", f, FALSE, "none", "InvalidMethod") : f \in {"Http11", "Http10"} }
    \cup { Req("Get", "Http11", FALSE, "none", d) :
            d \in {"InvalidUrl", "Query", "InvalidVersion", "UnsupportedVersion"} }
    \cup { Req("Get", "Http09", TRUE, "none", d) : d \in {"InvalidUrl", "Query"} }
    \* requests that fail in the headers or the body
    \cup { Req("Get", f, FALSE, "none", d) :
            f \in {"Http11", "Http10"},
            d \in (HeaderErrors \ {"InvalidConnection"}) \cup BodyErrors }
    \cup { Req("Get", f, FALSE, "invalid", "InvalidConnection") :
            f \in {"Http11", "Http10"} }
    \cup { Req("Get", "Http10", FALSE, "keep-alive", "BodyMismatch") }

NoRequest == Req("none", "none", FALSE, "none", NoError)

(* --------------------------- Response / Request ------------------------ *)

\* Response::new and the state Response::reset leaves
NewResponse ==
    [version |-> "Http11", keep_alive |-> TRUE, state |-> "Clean", buffer |-> <<>>]

\* Request::new and the state Request::reset leaves
NewRequest == [version |-> "Http11"]

\* Connection::new and the state Connection::reset leaves
NewConnection == [request_count |-> 0, elapsed |-> 0]

(* ------------------------- the lines of a request ---------------------- *)

\* ReqLimits of the model's server: header_name_size and header_value_size
\* hold the two special headers, url_size holds the keep-alive marker and a
\* segment, usize is as wide as UsizeMax says
HeaderNameSize == 14
HeaderValueSize == 10
url_size == 14
url_parts == 2
url_query_parts == 2
body_size == 3
UsizeMax == 2 ^ 16 - 1

\* ReqLimits::first_line and ReqLimits::h_line, the longest first line and the
\* longest header line with their line breaks
first_line == 19 + url_size
h_line == HeaderNameSize + HeaderValueSize + 4

\* precalc.url_size_memchr, the bytes searched for the space after the target,
\* and precalc.len_http09, one more than the longest line without a version
url_size_memchr == url_size + 1
len_http09 == first_line - 8

\* the ways a sender can end a line
Terminators == {<<"CR", "LF">>, <<"LF">>, <<"CR">>}

RequestTarget == <<"G", "E", "T", " ", "/", " ">>
Http11Text == <<"H", "T", "T", "P", "/", "1", ".", "1">>
Http10Text == <<"H", "T", "T", "P", "/", "1", ".", "0">>
HeaderText == <<"h", ":", " ", "v">>

\* the bytes of a request of Len(ends) - 2 header lines: ends[1] ends the
\* request line, ends[Len(ends)] is the blank line, the others end the
\* header lines
RECURSIVE HeaderBytes(_)
HeaderBytes(ends) ==
    IF Len(ends) = 1 THEN ends[1]
    ELSE HeaderText \o ends[1] \o HeaderBytes(SubSeq(ends, 2, Len(ends)))

RequestBytes(ends) ==
    RequestTarget \o Http11Text \o ends[1] \o HeaderBytes(SubSeq(ends, 2, Len(ends)))

\* ReqLimits::precalculate, precalc.buffer: the size of the Parser's buffer
BufferSize == first_line + MaxHeaderLines * h_line + 2 + body_size

\* Option::None of a slice and of a number
None == <<"None">>
NoNumber == -1

\* Request::reset, Response::reset and Parser::reset: nothing parsed yet
parsed_nothing ==
    [method |-> "Get", version |-> "Http11", keep_alive |-> TRUE,
     parts |-> <<>>, path |-> <<>>, target |-> <<>>, query |-> None,
     query_parts |-> <<>>, content_length |-> NoNumber, body |-> None,
     named |-> <<>>, data |-> <<>>, text |-> None]

\* Parser::fill_buffer: the bytes read, in a buffer of zeros
filled(bytes, position, at) ==
    LET read == SubSeq(bytes, 1, IF Len(bytes) > BufferSize THEN BufferSize
                                 ELSE Len(bytes))
    IN  [buffer |-> read \o [i \in 1 .. BufferSize - Len(read) |-> "NUL"],
         position |-> position, len |-> Len(read), has_crlf |-> FALSE,
         sent |-> bytes, headers |-> 0, at |-> at, error |-> NoError]
          @@ parsed_nothing

\* the Parser after parse_method and parse_url read RequestTarget
Parser_from(bytes) ==
    [filled(bytes, Len(RequestTarget), "check_version")
       EXCEPT !.path = <<"/">>, !.target = <<"/">>]

\* the Parser after fill_buffer, before parse()
Parser_read(bytes) == filled(bytes, 0, "parse_method")

\* Parser::new: a buffer of zeros; Request::new and Response::new beside it,
\* and no read served so far
Parser_new ==
    filled(<<>>, 0, "fill_buffer") @@ [reads |-> 0, before |-> <<>>]

\* mutant of Parser::reset: the buffer keeps its bytes
Parser_reset_keeps(p) ==
    [p EXCEPT !.position = 0, !.len = 0, !.has_crlf = FALSE]

\* Parser::reset
Parser_reset(p) ==
    [p EXCEPT !.position = 0, !.len = 0, !.has_crlf = FALSE,
              !.buffer = [i \in 1 .. Len(p.buffer) |-> "NUL"]]

\* HttpConnection::reset_request_response: Parser::reset, Request::reset and
\* Response::reset; the bytes of the read before are remembered beside them
Parser_reset_request_response(p) ==
    [f \in DOMAIN p |->
       CASE f \in {"buffer", "position", "len", "has_crlf"} -> Parser_reset(p)[f]
         [] f \in DOMAIN parsed_nothing -> parsed_nothing[f]
         [] f = "headers" -> 0
         [] f = "error" -> NoError
         [] f = "at" -> "fill_buffer"
         [] f = "before" -> p.sent
         [] OTHER -> p[f]]

\* Parser::fill_buffer: stream.read(&mut self.buffer) puts the n bytes it
\* returns at the start of the buffer, and len = n; impl_run breaks on n = 0
Parser_fill_buffer(p, bytes) ==
    [p EXCEPT !.buffer = bytes \o SubSeq(@, Len(bytes) + 1, Len(@)),
              !.len = Len(bytes),
              !.sent = bytes,
              !.reads = @ + 1,
              !.at = IF bytes = <<>> THEN "eof" ELSE "parse_method"]

\* Parser::get_slice: buffer.get(start..start + step)
get_slice(p, start, step) ==
    IF start < 0 \/ start + step > Len(p.buffer) THEN None
    ELSE SubSeq(p.buffer, start + 1, start + step)

\* memchr: the index of the first delimiter in the slice, -1 for None
memchr(delimiter, slice) ==
    IF \E i \in 1 .. Len(slice) : slice[i] = delimiter
    THEN (CHOOSE i \in 1 .. Len(slice) :
            /\ slice[i] = delimiter
            /\ \A j \in 1 .. i - 1 : slice[j] # delimiter) - 1
    ELSE -1

\* Parser::find_char
find_char(p, step, delimiter) ==
    IF get_slice(p, p.position, step) = None THEN -1
    ELSE memchr(delimiter, get_slice(p, p.position, step))

\* the slice ends with the given bytes
ends_with(slice, bytes) ==
    /\ Len(slice) >= Len(bytes)
    /\ SubSeq(slice, Len(slice) - Len(bytes) + 1, Len(slice)) = bytes

\* parse() stops with an error, which may carry numbers
Stop(p, kind) == [p EXCEPT !.at = "error", !.error = kind]
StopWith(p, kind, data) == [Stop(p, kind) EXCEPT !.data = data]

\* Version::from_bytes: the version and the keep_alive it implies
Version_from_bytes(src) ==
    CASE src = Http11Text -> <<"Http11", TRUE>>
      [] src = Http10Text -> <<"Http10", FALSE>>
      [] OTHER -> None

\* the methods and their names on the wire
MethodNames ==
    <<<<"Get", <<"G", "E", "T">>>>, <<"Put", <<"P", "U", "T">>>>,
      <<"Post", <<"P", "O", "S", "T">>>>, <<"Head", <<"H", "E", "A", "D">>>>,
      <<"Patch", <<"P", "A", "T", "C", "H">>>>,
      <<"Delete", <<"D", "E", "L", "E", "T", "E">>>>,
      <<"Options", <<"O", "P", "T", "I", "O", "N", "S">>>>>>

\* Method::from_bytes of the first eight bytes: the method whose name and a
\* space begin the slice, and the position after the space
Method_from_bytes(src) ==
    IF \E m \in 1 .. Len(MethodNames) :
         SubSeq(src, 1, Len(MethodNames[m][2]) + 1) = MethodNames[m][2] \o <<" ">>
    THEN LET m == CHOOSE m \in 1 .. Len(MethodNames) :
                    SubSeq(src, 1, Len(MethodNames[m][2]) + 1)
                      = MethodNames[m][2] \o <<" ">>
         IN  <<MethodNames[m][1], Len(MethodNames[m][2]) + 1>>
    ELSE None

\* HttpConnection::parse_method on the Parser
Parser_parse_method(p) ==
    IF get_slice(p, 0, 8) = None THEN Stop(p, "InvalidMethod")
    ELSE IF Method_from_bytes(get_slice(p, 0, 8)) = None THEN Stop(p, "InvalidMethod")
    ELSE [p EXCEPT !.method = Method_from_bytes(get_slice(p, 0, 8))[1],
                   !.position = Method_from_bytes(get_slice(p, 0, 8))[2],
                   !.at = "parse_url"]

\* mutant of is_http_09: the limits are not asked for
Parser_is_http_09_unlimited(p, limits) ==
    /\ p.len < len_http09
    /\ p.method = "Get"
    /\ ends_with(SubSeq(p.buffer, 1, p.len), <<"CR", "LF">>)

\* HttpConnection::is_http_09 on the Parser
Parser_is_http_09(p, limits) ==
    /\ limits
    /\ p.len < len_http09
    /\ p.method = "Get"
    /\ ends_with(SubSeq(p.buffer, 1, p.len), <<"CR", "LF">>)

KeepAliveMarker == <<"/", "k", "e", "e", "p", "_", "a", "l", "i", "v", "e">>

\* HttpConnection::get_range_url_http_09 on the Parser: the Parser it leaves
\* and the range it returns, None for InvalidUrl
Parser_get_range_url_http_09(p) ==
    LET end_url == p.len - 2
        slice == get_slice(p, p.position, 12)
        marked == SubSeq(slice, 1, 11) = KeepAliveMarker
        position == IF marked THEN p.position + 11 ELSE p.position
    IN  IF p.position >= end_url THEN None
        ELSE IF slice = None THEN None
        ELSE <<[p EXCEPT !.keep_alive = marked, !.position = position,
                         !.version = "Http09"],
               position + 1, end_url - position>>

\* usize::saturating_sub
saturating_sub(a, b) == IF a > b THEN a - b ELSE 0

\* memchr_iter: the indices of the delimiter in the slice, in order
RECURSIVE memchr_iter_from(_, _, _)
memchr_iter_from(delimiter, slice, i) ==
    IF i > Len(slice) THEN <<>>
    ELSE IF slice[i] = delimiter
    THEN <<i - 1>> \o memchr_iter_from(delimiter, slice, i + 1)
    ELSE memchr_iter_from(delimiter, slice, i + 1)

memchr_iter(delimiter, slice) == memchr_iter_from(delimiter, slice, 1)

\* Query::parse_into: the loop over the parameters from `start`
RECURSIVE query_loop(_, _, _, _)
query_loop(data, start, result, limit) ==
    IF start >= Len(data) THEN [error |-> NoError, pairs |-> result]
    ELSE IF Len(result) >= limit THEN [error |-> "OverLimit", pairs |-> result]
    ELSE LET amp == memchr("&", SubSeq(data, start + 1, Len(data)))
             end == IF amp = -1 THEN Len(data) ELSE start + amp
             eq == memchr("=", SubSeq(data, start + 1, end))
             split_index == start + (IF eq = -1 THEN end - start ELSE eq)
             key == SubSeq(data, start + 1, split_index)
             value == IF split_index < end THEN SubSeq(data, split_index + 2, end)
                      ELSE <<>>
         IN  query_loop(data, end + 1, Append(result, <<key, value>>), limit)

\* mutant of parse_into: the leading '?' stays in the data
parse_into_whole(query, limit) ==
    IF query = <<>> THEN [error |-> "Empty", pairs |-> <<>>]
    ELSE query_loop(query, 0, <<>>, limit)

\* Query::parse_into
parse_into(query, limit) ==
    IF query = <<>> THEN [error |-> "Empty", pairs |-> <<>>]
    ELSE query_loop(IF Head(query) = "?" THEN Tail(query) ELSE query, 0, <<>>, limit)

\* mutant of the loop of parse_url: the empty parts are pushed too
RECURSIVE push_parts_all(_, _, _, _, _)
push_parts_all(p, start, indices, parts, last) ==
    IF indices = <<>> THEN [error |-> FALSE, parts |-> parts, last |-> last]
    ELSE IF Len(parts) = url_parts
    THEN [error |-> TRUE, parts |-> parts, last |-> last]
    ELSE IF get_slice(p, start + last, Head(indices) - last) = None
    THEN [error |-> TRUE, parts |-> parts, last |-> last]
    ELSE push_parts_all(p, start, Tail(indices),
                        Append(parts, get_slice(p, start + last, Head(indices) - last)),
                        Head(indices) + 1)

\* HttpConnection::parse_url: the loop over the b'/' of slice_url, which
\* pushes the non-empty parts
RECURSIVE push_parts(_, _, _, _, _)
push_parts(p, start, indices, parts, last) ==
    IF indices = <<>> THEN [error |-> FALSE, parts |-> parts, last |-> last]
    ELSE IF Len(parts) = url_parts
    THEN [error |-> TRUE, parts |-> parts, last |-> last]
    ELSE IF get_slice(p, start + last, Head(indices) - last) = None
    THEN [error |-> TRUE, parts |-> parts, last |-> last]
    ELSE push_parts(p, start, Tail(indices),
                    IF get_slice(p, start + last, Head(indices) - last) # <<>>
                    THEN Append(parts, get_slice(p, start + last, Head(indices) - last))
                    ELSE parts,
                    Head(indices) + 1)

\* HttpConnection::parse_url from the range [start, posit] on
url_of_range(p, start, posit) ==
    LET slice_url == SubSeq(p.buffer, start + 1, start + posit)
        looped == push_parts(p, start, memchr_iter("/", slice_url), <<>>, 0)
        range == <<start + looped.last, saturating_sub(posit - looped.last, 1)>>
        q_pos == find_char(p, posit, "?")
        query == IF q_pos = -1 THEN None
                 ELSE get_slice(p, q_pos, saturating_sub(range[1] + range[2], q_pos))
        pairs == parse_into(query, url_query_parts)
        end == IF q_pos = -1 THEN posit ELSE q_pos
        slice == get_slice(p, range[1], saturating_sub(p.position + end, range[1]))
    IN  IF slice_url = <<>> \/ p.buffer[start] # "/" THEN Stop(p, "InvalidUrl")
        ELSE IF looped.error THEN Stop(p, "InvalidUrl")
        ELSE IF q_pos # -1 /\ query = None THEN Stop(p, "InvalidUrl")
        ELSE IF q_pos # -1 /\ pairs.error # NoError THEN Stop(p, "Query")
        ELSE IF slice = None THEN Stop(p, "InvalidUrl")
        ELSE IF get_slice(p, p.position, end) = None
                  \/ get_slice(p, p.position, posit) = None
        THEN Stop(p, "InvalidUrl")
        ELSE [p EXCEPT !.parts = IF slice # <<>> THEN Append(looped.parts, slice)
                                 ELSE looped.parts,
                       !.query = query,
                       !.query_parts = IF q_pos = -1 THEN <<>> ELSE pairs.pairs,
                       !.path = get_slice(p, p.position, end),
                       !.target = get_slice(p, p.position, posit),
                       !.position = @ + posit + 1,
                       !.at = "check_http09"]

\* HttpConnection::parse_url on the Parser: the match on the space after the
\* target
Parser_parse_url(p, limits) ==
    IF find_char(p, url_size_memchr, " ") # -1
    THEN url_of_range(p, p.position + 1, find_char(p, url_size_memchr, " "))
    ELSE IF ~Parser_is_http_09(p, limits) THEN Stop(p, "InvalidUrl")
    ELSE IF Parser_get_range_url_http_09(p) = None THEN Stop(p, "InvalidUrl")
    ELSE url_of_range(Parser_get_range_url_http_09(p)[1],
                      Parser_get_range_url_http_09(p)[2],
                      Parser_get_range_url_http_09(p)[3])

\* HttpConnection::check_http09 on the Parser
Parser_check_http09(p, limits) ==
    IF p.version # "Http09" THEN [p EXCEPT !.at = "check_version"]
    ELSE IF ~limits THEN Stop(p, "UnsupportedVersion")
    ELSE IF ends_with(SubSeq(p.buffer, p.position + 1, p.len), <<"LF">>)
    THEN [p EXCEPT !.at = "handle"]
    ELSE Stop(p, "InvalidVersion")

\* HttpConnection::check_version on the Parser: find_slice(10, b'\n'), the
\* length of the slice, Version::from_bytes of its first eight bytes, has_crlf
Parser_check_version(p) ==
    LET step == find_char(p, 10, "LF")
        slice == get_slice(p, p.position, step)
        version == Version_from_bytes(SubSeq(slice, 1, 8))
    IN  IF step = -1 THEN Stop(p, "InvalidVersion")
        ELSE IF Len(slice) \notin {8, 9} THEN Stop(p, "InvalidVersion")
        ELSE IF version = None THEN Stop(p, "UnsupportedVersion")
        ELSE [p EXCEPT !.position = @ + step + 1,
                       !.version = version[1], !.keep_alive = version[2],
                       !.has_crlf = (slice[Len(slice)] = "CR"),
                       !.at = "parse_header"]

\* HttpConnection::parse_header: the match on the two bytes that end the line
line_break_matches(pair, has_crlf) ==
    /\ pair # None
    /\ pair[2] = "LF"
    /\ has_crlf => pair[1] = "CR"

\* HttpConnection::check_end_of_headers
check_end_of_headers(p, start) ==
    LET p_end == get_slice(p, p.position + start - 3, 4)
    IN  IF p_end = None THEN Stop(p, "InvalidHeader")
        ELSE IF ~(IF p.has_crlf THEN ends_with(p_end, <<"CR", "LF", "CR", "LF">>)
                  ELSE ends_with(p_end, <<"LF", "LF">>))
        THEN Stop(p, "InvalidHeader")
        ELSE [p EXCEPT !.position = @ + (IF p.has_crlf THEN 1 ELSE 0) + 1,
                       !.at = "check_body"]

\* the ASCII letters, upper case and lower case
UpperCase ==
    <<"A", "B", "C", "D", "E", "F", "G", "H", "I", "J", "K", "L", "M",
      "N", "O", "P", "Q", "R", "S", "T", "U", "V", "W", "X", "Y", "Z">>
LowerCase ==
    <<"a", "b", "c", "d", "e", "f", "g", "h", "i", "j", "k", "l", "m",
      "n", "o", "p", "q", "r", "s", "t", "u", "v", "w", "x", "y", "z">>

\* types::to_lower_case and types::into_lower_case: the bytes with every
\* ASCII upper-case letter replaced by its lower-case letter
to_lower_case(bytes) ==
    [i \in 1 .. Len(bytes) |->
       IF \E k \in 1 .. 26 : UpperCase[k] = bytes[i]
       THEN LowerCase[CHOOSE k \in 1 .. 26 : UpperCase[k] = bytes[i]]
       ELSE bytes[i]]
into_lower_case(value) == to_lower_case(value)

Digits == <<"0", "1", "2", "3", "4", "5", "6", "7", "8", "9">>
is_ascii_digit(byte) == \E d \in 1 .. 10 : Digits[d] = byte
digit_of(byte) == (CHOOSE d \in 1 .. 10 : Digits[d] = byte) - 1

\* types::slice_to_usize: the loop over the bytes from the result so far,
\* NoNumber for a non-digit and for a checked_mul or checked_add that overflows
RECURSIVE slice_to_usize_from(_, _)
slice_to_usize_from(result, bytes) ==
    IF bytes = <<>> THEN result
    ELSE IF ~is_ascii_digit(Head(bytes)) THEN NoNumber
    ELSE IF result * 10 > UsizeMax THEN NoNumber
    ELSE IF result * 10 + digit_of(Head(bytes)) > UsizeMax THEN NoNumber
    ELSE slice_to_usize_from(result * 10 + digit_of(Head(bytes)), Tail(bytes))

slice_to_usize(bytes) == slice_to_usize_from(0, bytes)

ContentLengthName ==
    <<"c", "o", "n", "t", "e", "n", "t", "-", "l", "e", "n", "g", "t", "h">>
ConnectionName == <<"c", "o", "n", "n", "e", "c", "t", "i", "o", "n">>
KeepAliveValue == <<"k", "e", "e", "p", "-", "a", "l", "i", "v", "e">>
CloseValue == <<"c", "l", "o", "s", "e">>

\* mutant of parse_content_length: a length of body_size is too large
parse_content_length_strict(p, value) ==
    LET len == slice_to_usize(value)
    IN  IF len = NoNumber THEN Stop(p, "InvalidContentLength")
        ELSE IF len >= body_size THEN Stop(p, "BodyTooLarge")
        ELSE [p EXCEPT !.content_length = len]

\* HttpConnection::parse_content_length
parse_content_length(p, value) ==
    LET len == slice_to_usize(value)
    IN  IF len = NoNumber THEN Stop(p, "InvalidContentLength")
        ELSE IF len > body_size THEN Stop(p, "BodyTooLarge")
        ELSE [p EXCEPT !.content_length = len]

\* mutant of parse_connection: close keeps the connection
Parser_parse_connection_keeps(p, value) ==
    LET normalized == into_lower_case(value)
    IN  CASE normalized = KeepAliveValue -> [p EXCEPT !.keep_alive = TRUE]
          [] normalized = CloseValue -> [p EXCEPT !.keep_alive = TRUE]
          [] OTHER -> Stop(p, "InvalidConnection")

\* HttpConnection::parse_connection
Parser_parse_connection(p, value) ==
    LET normalized == into_lower_case(value)
    IN  CASE normalized = KeepAliveValue -> [p EXCEPT !.keep_alive = TRUE]
          [] normalized = CloseValue -> [p EXCEPT !.keep_alive = FALSE]
          [] OTHER -> Stop(p, "InvalidConnection")

\* HttpConnection::parse_special_header; an ordinary header is pushed to
\* request.headers
parse_special_header(p, name, value) ==
    CASE name = ContentLengthName -> parse_content_length(p, value)
      [] name = ConnectionName -> Parser_parse_connection(p, value)
      [] OTHER -> [p EXCEPT !.named = Append(@, <<name, value>>)]

\* mutant of parse_headers: a special header takes no turn of the loop
turn_taken_by_ordinary(p, name) ==
    IF name \in {ContentLengthName, ConnectionName} THEN p
    ELSE [p EXCEPT !.headers = @ + 1]

\* HttpConnection::parse_headers: every header parse_header returns, special
\* or not, takes a turn of the loop over 0..=header_count
turn_taken(p, name) == [p EXCEPT !.headers = @ + 1]

\* HttpConnection::parse_headers and parse_header: one turn of the loop over
\* 0..=header_count
parse_header(p) ==
    LET end == find_char(p, h_line, "LF")
        split == find_char(p, end, ":")
        value_start == split + 2
        len_value == end - value_start - (IF p.has_crlf THEN 1 ELSE 0)
        name == to_lower_case(get_slice(p, p.position, split))
        value == get_slice(p, p.position + value_start, len_value)
    IN  IF p.headers > MaxHeaderLines THEN Stop(p, "TooManyHeaders")
        ELSE IF end = -1 THEN Stop(p, "InvalidHeader")
        ELSE IF ~line_break_matches(get_slice(p, p.position + end - 1, 2), p.has_crlf)
        THEN Stop(p, "InvalidHeader")
        ELSE IF split = -1 THEN check_end_of_headers(p, end)
        ELSE IF get_slice(p, p.position + split, 2) # <<":", " ">>
        THEN Stop(p, "InvalidHeader")
        ELSE IF split > HeaderNameSize \/ len_value > HeaderValueSize
        THEN Stop(p, "InvalidHeader")
        ELSE IF split = 0 THEN Stop(p, "InvalidHeader")
        ELSE parse_special_header(
                 turn_taken([p EXCEPT !.position = @ + end + 1], name),
                 name, value)

\* mutant of check_body: a body shorter than declared is taken
Parser_check_body_short(p) ==
    LET body == p.len - p.position
    IN  IF p.content_length # NoNumber /\ p.content_length >= body
        THEN [p EXCEPT !.body = get_slice(p, p.position, body), !.at = "handle"]
        ELSE IF p.content_length # NoNumber
        THEN StopWith(p, "BodyMismatch", <<p.content_length, body>>)
        ELSE IF body = 0 THEN [p EXCEPT !.at = "handle"]
        ELSE StopWith(p, "UnexpectedBody", <<body>>)

\* HttpConnection::check_body
Parser_check_body(p) ==
    LET body == p.len - p.position
    IN  IF p.content_length # NoNumber /\ p.content_length = body
        THEN IF get_slice(p, p.position, p.content_length) = None
             THEN StopWith(p, "BodyMismatch", <<p.content_length, body>>)
             ELSE [p EXCEPT !.body = get_slice(p, p.position, p.content_length),
                            !.at = "handle"]
        ELSE IF p.content_length # NoNumber
        THEN StopWith(p, "BodyMismatch", <<p.content_length, body>>)
        ELSE IF body = 0 THEN [p EXCEPT !.at = "handle"]
        ELSE StopWith(p, "UnexpectedBody", <<body>>)

\* the bytes are well-formed UTF-8: of the bytes of the model only 0xFF is not
is_utf8(bytes) == \A i \in DOMAIN bytes : bytes[i] # "xFF"

\* std::str::from_utf8_unchecked: the text the bytes encode; undefined
\* behaviour for bytes that are not UTF-8, which may yield a str of those
\* bytes or anything else
Undefined == <<"undefined">>
from_utf8_unchecked(bytes) ==
    IF is_utf8(bytes) THEN {bytes} ELSE {bytes, Undefined}

\* Url::query_str of the i-th parameter: the texts the handler may get
query_str(p, i) == from_utf8_unchecked(p.query_parts[i][2])

\* no request is being parsed
NoParser == Parser_from(<<>>)

(* --------------------------- response builder -------------------------- *)

\* Byte counts are kept as q * 10^9 + r with 0 <= r < 10^9, so that the
\* lengths a usize can hold on a 64-bit target are computed exactly
Giga == 1000000000

Bytes(n) == [q |-> n \div Giga, r |-> n % Giga]

size_add(a, b) ==
    [q |-> a.q + b.q + (a.r + b.r) \div Giga, r |-> (a.r + b.r) % Giga]

size_sub(a, b) ==
    IF a.r >= b.r THEN [q |-> a.q - b.q, r |-> a.r - b.r]
    ELSE [q |-> a.q - b.q - 1, r |-> a.r + Giga - b.r]

\* what one extend_from_slice or write_to appends to the buffer: its kind,
\* its text, its number of bytes and, for the content-length slot, its digits
Segment(kind, text, size) ==
    [kind |-> kind, text |-> text, size |-> size, digits |-> <<>>]

\* Vec::len of the buffer
RECURSIVE buffer_len(_)
buffer_len(buffer) ==
    IF buffer = <<>> THEN Bytes(0)
    ELSE size_add(buffer_len(SubSeq(buffer, 1, Len(buffer) - 1)),
                  buffer[Len(buffer)].size)

\* the body lengths a handler writes: none, a short one and the longest
BodyLengths == {Bytes(0), Bytes(12), [q |-> MaxBodyGiga, r |-> 0]}

\* Response::new, with the version and keep_alive the parser stores in it
\* before the handler is called
Response_new(version, keep_alive) ==
    [buffer |-> <<>>, version |-> version, keep_alive |-> keep_alive,
     posit_length |-> Bytes(0), start_body |-> Bytes(0), state |-> "Clean"]

\* the debug_assert! conditions of the builder methods
status_asserts(resp) == resp.state = "Clean" /\ resp.version # "Http09"

header_asserts(resp) == resp.state = "Headers"

body_asserts(resp) == resp.state = "Headers"

http09_asserts(resp) == resp.version = "Http09" /\ resp.state = "Clean"

\* mutant of close_asserts: close() is accepted in every state
close_asserts_nothing(resp) == TRUE

close_asserts(resp) == resp.state # "Complete"

\* StatusCode::to_first_line
to_first_line(version) ==
    CASE version = "Http11" -> Segment("status", "HTTP/1.1 200 OK", Bytes(17))
      [] version = "Http10" -> Segment("status", "HTTP/1.0 200 OK", Bytes(17))
      [] OTHER -> Segment("status", " 200 OK", Bytes(9))

\* Response::status
status(resp) ==
    [resp EXCEPT !.buffer = Append(@, to_first_line(resp.version)),
                 !.state = "Headers"]

\* Response::header, header_multi and header_params: one header line
header(resp, name, value) ==
    [resp EXCEPT !.buffer = Append(@, Segment("header", name, value))]

\* mutant of Response::close: keep_alive is turned over
Response_close_toggles(resp) == [resp EXCEPT !.keep_alive = ~@]

\* Response::close
Response_close(resp) == [resp EXCEPT !.keep_alive = FALSE]

\* mutant of connection_header: an HTTP/1.0 response that keeps the
\* connection says nothing
connection_header_silent(version, keep_alive) ==
    IF keep_alive THEN "none" ELSE "connection: close"

\* Response::connection_header
connection_header(version, keep_alive) ==
    CASE version = "Http11" /\ keep_alive -> "none"
      [] version = "Http11" /\ ~keep_alive -> "connection: close"
      [] version = "Http10" /\ keep_alive -> "connection: keep-alive"
      [] version = "Http10" /\ ~keep_alive -> "connection: close"
      [] OTHER -> "none"

\* Response::start_body: the connection header if there is one, the
\* content-length slot of ten zeros, the blank line
start_body(resp) ==
    LET value == connection_header(resp.version, resp.keep_alive)
        named == IF value = "none" THEN resp
                 ELSE header(resp, value, Bytes(IF value = "connection: close"
                                                THEN 19 ELSE 24))
        label == Append(named.buffer,
                        Segment("header", "content-length: ", Bytes(16)))
        slot == [Segment("slot", "", Bytes(10)) EXCEPT
                   !.digits = [i \in 1 .. 10 |-> 0]]
        blank == Segment("blank", "", Bytes(4))
    IN  [named EXCEPT !.buffer = label \o <<slot, blank>>,
                      !.posit_length = buffer_len(label),
                      !.start_body = buffer_len(label \o <<slot, blank>>)]

\* Response::number_to_bytes: the loop that writes the decimal digits of n
\* from the right into an array of 39 zeros
RECURSIVE number_to_bytes_loop(_, _, _)
number_to_bytes_loop(n, i, arr) ==
    IF n = Bytes(0) THEN arr
    ELSE number_to_bytes_loop(
           [q |-> n.q \div 10, r |-> (n.q % 10) * (Giga \div 10) + n.r \div 10],
           i - 1, [arr EXCEPT ![i] = n.r % 10])

number_to_bytes(n) == number_to_bytes_loop(n, 39, [i \in 1 .. 39 |-> 0])

\* the byte offset at which segment i of the buffer starts
offset(buffer, i) == buffer_len(SubSeq(buffer, 1, i - 1))

\* Response::end_body: the last ten digits of the body length are copied over
\* the ten bytes at posit_length
end_body(resp) ==
    LET body_len == size_sub(buffer_len(resp.buffer), resp.start_body)
        arr == number_to_bytes(body_len)
    IN  [resp EXCEPT
           !.buffer = [i \in DOMAIN @ |->
                         IF /\ offset(@, i) = resp.posit_length
                            /\ @[i].size = Bytes(10)
                         THEN [@[i] EXCEPT !.digits = SubSeq(arr, 30, 39)]
                         ELSE @[i]],
           !.state = "Complete"]

\* Response::body and body_with: start_body, the data, end_body
Response_body(resp, size) ==
    LET started == start_body(resp)
    IN  end_body([started EXCEPT !.buffer = Append(@, Segment("body", "", size))])

\* Response::http09, http09_with, http09_status and http09_msg
Response_http09(resp, size) ==
    [resp EXCEPT !.buffer = Append(@, Segment("body", "", size)),
                 !.state = "Complete"]

\* the builder methods
HeaderMethods == {"header", "header_multi", "header_params"}
BodyMethods == {"body", "body_with"}
Http09Methods == {"http09", "http09_with", "http09_status", "http09_msg"}

\* the debug_assert! of a method
asserts(method, resp) ==
    CASE method = "status" -> status_asserts(resp)
      [] method \in HeaderMethods -> header_asserts(resp)
      [] method \in BodyMethods -> body_asserts(resp)
      [] method \in Http09Methods -> http09_asserts(resp)
      [] OTHER -> close_asserts(resp)

\* what a method does to the Response once past its assertions
applied(method, resp, size) ==
    CASE method = "status" -> status(resp)
      [] method \in HeaderMethods -> header(resp, "x: y", Bytes(6))
      [] method \in BodyMethods -> Response_body(resp, size)
      [] method \in Http09Methods -> Response_http09(resp, size)
      [] OTHER -> Response_close(resp)

\* no handler holds a Response
NoBuilder ==
    [resp |-> Response_new("Http11", TRUE), calls |-> <<>>,
     panicked |-> FALSE, debug_assertions |-> FALSE]

(* ------------------------------ the parser ----------------------------- *)
\* The parser works on a record [error, request, response]: the ErrorKind it
\* has returned (NoError while it goes on) and the two objects it updates.

Fail(ps, kind) == [ps EXCEPT !.error = kind]

\* HttpConnection::parse_method
parse_method(ps, req) ==
    IF req.method = "Invalid" THEN Fail(ps, "InvalidMethod") ELSE ps

\* HttpConnection::is_http_09: limits configured, method GET, line ends with CRLF
is_http_09(req, http09) == http09 /\ req.method = "Get" /\ req.form = "Http09"

\* HttpConnection::get_range_url_http_09
get_range_url_http_09(ps, req) ==
    [ps EXCEPT !.response.keep_alive = req.marker,
               !.request.version = "Http09",
               !.response.version = "Http09"]

\* HttpConnection::parse_url
parse_url(ps, req, http09) ==
    IF ps.error # NoError THEN ps
    ELSE LET found == req.form # "Http09"     \* a space follows the target
             ps1 == IF found THEN ps
                    ELSE IF is_http_09(req, http09)
                         THEN get_range_url_http_09(ps, req)
                         ELSE Fail(ps, "InvalidUrl")
         IN  IF ps1.error # NoError THEN ps1
             ELSE IF req.defect \in {"InvalidUrl", "Query"}
                  THEN Fail(ps1, req.defect)
                  ELSE ps1

\* HttpConnection::check_http09: TRUE when parsing stops after the first line
check_http09(ps, http09) ==
    IF ps.error # NoError THEN ps
    ELSE IF ps.request.version = "Http09" /\ ~http09
         THEN Fail(ps, "UnsupportedVersion")
         ELSE ps

\* HttpConnection::check_version with Version::from_bytes
check_version(ps, req) ==
    IF ps.error # NoError \/ ps.request.version = "Http09" THEN ps
    ELSE IF req.defect \in {"InvalidVersion", "UnsupportedVersion"}
         THEN Fail(ps, req.defect)
         ELSE [ps EXCEPT !.response.version = req.form,
                         !.response.keep_alive = (req.form = "Http11"),
                         !.request.version = req.form]

\* HttpConnection::parse_connection
parse_connection(ps, value) ==
    CASE value = "keep-alive" -> [ps EXCEPT !.response.keep_alive = TRUE]
      [] value = "close" -> [ps EXCEPT !.response.keep_alive = FALSE]
      [] value = "none" -> ps
      [] OTHER -> Fail(ps, "InvalidConnection")

\* HttpConnection::parse_headers
parse_headers(ps, req) ==
    IF ps.error # NoError \/ ps.request.version = "Http09" THEN ps
    ELSE LET ps1 == parse_connection(ps, req.connection)
         IN  IF ps1.error # NoError THEN ps1
             ELSE IF req.defect \in HeaderErrors THEN Fail(ps1, req.defect)
             ELSE ps1

\* HttpConnection::check_body
check_body(ps, req) ==
    IF ps.error # NoError \/ ps.request.version = "Http09" THEN ps
    ELSE IF req.defect \in BodyErrors THEN Fail(ps, req.defect)
    ELSE ps

\* HttpConnection::parse, followed by `self.response.version = self.parse()?`
parse(req, http09, request, response) ==
    LET ps0 == [error |-> NoError, request |-> request, response |-> response]
        ps1 == parse_method(ps0, req)
        ps2 == parse_url(ps1, req, http09)
        ps3 == check_http09(ps2, http09)
        ps4 == check_version(ps3, req)
        ps5 == parse_headers(ps4, req)
        ps6 == check_body(ps5, req)
    IN  IF ps6.error # NoError THEN ps6
        ELSE [ps6 EXCEPT !.response.version = ps6.request.version]

(* ------------------------------- state --------------------------------- *)

VARIABLES
    json_errors,      \* ServerLimits.json_errors
    http_09_limits,   \* TRUE when Http09Limits were given to the builder
    max_connections,  \* ServerLimits.max_connections: the workers build() spawned
    accepted,         \* number of streams accept() has returned
    launch,           \* the accept loop: its position, the stream it holds
                      \* and the queue it chose for it
    stream_queue,     \* admission queue
    count_503_handlers, \* ServerLimits.count_503_handlers
    error_queue,      \* queue of the streams to answer with 503
    alarmist,         \* per 503 responder, the stream it holds
    error_takes,      \* per stream, how often a 503 responder popped it
    answered,         \* per stream, what a 503 responder did with it
    takes,            \* per stream, how often a worker popped it
    pc,               \* per worker, the await point or step it is at
    stream,           \* per worker, the stream it is bound to
    response,         \* per worker, HttpConnection.response
    request,          \* per worker, HttpConnection.request
    connection,       \* per worker, HttpConnection.connection
    connection_data,  \* per worker, the user state S: handler calls since reset
    error,            \* per worker, the ErrorKind impl_run returned to run
    received,         \* per worker, the request the last read delivered
    log,              \* per worker, the steps taken on the current stream
    canned,           \* per worker, the canned response written to the stream
    parser,           \* a Parser at work on the bytes of one request: buffer,
                      \* position, len, has_crlf, and how far parse() has got
    builder           \* a Response in the hands of a handler: the Response,
                      \* the builder calls made on it, whether one panicked
                      \* and whether the build has debug assertions

\* what no step of the server changes: its limits, and the Parser and the
\* Response on which the parsing of lines and the builder are studied apart
\* from the server
limit_vars == <<json_errors, http_09_limits, max_connections, count_503_handlers,
                parser, builder>>
alarm_vars == <<alarmist, error_takes, answered>>
server_vars == <<limit_vars, accepted, launch, stream_queue, error_queue,
                 alarm_vars, takes>>
worker_vars == <<pc, stream, response, request, connection, connection_data,
                 error, received, log, canned>>
vars == <<server_vars, worker_vars>>

\* ServerBuilder::build: max_connections workers, each with a new
\* HttpConnection, waiting in get_stream; two empty queues
InitServer ==
    /\ json_errors \in BOOLEAN
    /\ http_09_limits \in BOOLEAN
    /\ max_connections \in 1 .. MaxConnections
    /\ accepted = 0
    /\ launch = [pc |-> "accept", value |-> NoStream, admit |-> FALSE]
    /\ stream_queue = <<>>
    /\ count_503_handlers \in 0 .. Max503Handlers
    /\ error_queue = <<>>
    /\ alarmist = [a \in Alarmists |-> NoStream]
    /\ error_takes = [s \in Streams |-> 0]
    /\ answered = [s \in Streams |-> NoCanned]
    /\ takes = [s \in Streams |-> 0]
    /\ pc = [w \in Workers |-> "get_stream"]
    /\ stream = [w \in Workers |-> NoStream]
    /\ response = [w \in Workers |-> NewResponse]
    /\ request = [w \in Workers |-> NewRequest]
    /\ connection = [w \in Workers |-> NewConnection]
    /\ connection_data = [w \in Workers |-> 0]
    /\ error = [w \in Workers |-> NoError]
    /\ received = [w \in Workers |-> NoRequest]
    /\ log = [w \in Workers |-> <<>>]
    /\ canned = [w \in Workers |-> NoCanned]

\* the server as built, no handler holding a Response
Init == InitServer /\ builder = NoBuilder /\ parser = NoParser

(* ------------------------------ accept loop ---------------------------- *)

\* mutant of admits: the comparison lets one more stream in
admits_off_by_one(len) == len <= MaxPendingConnections

\* Server::launch: stream_queue.len() < max_pending_connections
admits(len) == len < MaxPendingConnections

\* Server::launch: accept() returned a (stream, addr) pair and the match read
\* the length of the admission queue
LaunchAcceptOf(limit) ==
    /\ launch.pc = "accept"
    /\ accepted < limit
    /\ accepted' = accepted + 1
    /\ launch' = [pc |-> "push", value |-> accepted + 1,
                  admit |-> admits(Len(stream_queue))]
    /\ UNCHANGED <<limit_vars, stream_queue, error_queue, alarm_vars, takes,
                   worker_vars>>

\* the accept loop, which takes MaxStreams connections
LaunchAccept == LaunchAcceptOf(MaxStreams)

\* Server::launch: the push into the queue the match chose
LaunchPush ==
    /\ launch.pc = "push"
    /\ IF launch.admit
       THEN /\ stream_queue' = Append(stream_queue, launch.value)
            /\ UNCHANGED error_queue
       ELSE /\ error_queue' = Append(error_queue, launch.value)
            /\ UNCHANGED stream_queue
    /\ launch' = [pc |-> "accept", value |-> NoStream, admit |-> FALSE]
    /\ UNCHANGED <<limit_vars, accepted, alarm_vars, takes, worker_vars>>

(* ------------------------------ 503 responder -------------------------- *)

\* mutant of pop: the queue keeps the value it hands out
pop_keeps(queue) == queue

\* SegQueue::pop as used by Server::get_stream: the queue without its head
pop(queue) == Tail(queue)

\* ServerBuilder::build: the responders it spawns, count_503_handlers of
\* spawn_alarmist or one of spawn_quiet_alarmist
Spawned(a) ==
    IF count_503_handlers = 0 THEN a = 1 ELSE a <= count_503_handlers

\* mutant of alarm: the silent responder answers too
alarm_always_answers(count, json) == as_http("ServiceUnavailable", "Http11", json)

\* what a responder puts on the stream it took: spawn_alarmist sends the
\* canned ServiceUnavailable response for HTTP/1.1, spawn_quiet_alarmist
\* nothing
alarm(count, json) ==
    IF count = 0 THEN Dropped ELSE as_http("ServiceUnavailable", "Http11", json)

\* ServerBuilder::spawn_alarmist: get_stream on the error queue
AlarmistGetStream(a) ==
    /\ Spawned(a)
    /\ count_503_handlers > 0
    /\ alarmist[a] = NoStream
    /\ error_queue # <<>>
    /\ alarmist' = [alarmist EXCEPT ![a] = Head(error_queue)]
    /\ error_takes' = [error_takes EXCEPT ![Head(error_queue)] = @ + 1]
    /\ error_queue' = pop(error_queue)
    /\ UNCHANGED <<limit_vars, accepted, launch, stream_queue, answered, takes,
                   worker_vars>>

\* ServerBuilder::spawn_alarmist: send_error(ServiceUnavailable), its result
\* ignored, and the stream dropped at the end of the loop body
AlarmistSendError(a) ==
    /\ Spawned(a)
    /\ alarmist[a] # NoStream
    /\ answered' = [answered EXCEPT ![alarmist[a]] =
                      alarm(count_503_handlers, json_errors)]
    /\ alarmist' = [alarmist EXCEPT ![a] = NoStream]
    /\ UNCHANGED <<limit_vars, accepted, launch, stream_queue, error_queue,
                   error_takes, takes, worker_vars>>

\* ServerBuilder::spawn_quiet_alarmist: get_stream on the error queue and
\* drop(stream), with no suspension in between
QuietAlarmist(a) ==
    /\ Spawned(a)
    /\ count_503_handlers = 0
    /\ error_queue # <<>>
    /\ error_takes' = [error_takes EXCEPT ![Head(error_queue)] = @ + 1]
    /\ answered' = [answered EXCEPT ![Head(error_queue)] =
                      alarm(count_503_handlers, json_errors)]
    /\ error_queue' = pop(error_queue)
    /\ UNCHANGED <<limit_vars, accepted, launch, stream_queue, alarmist, takes,
                   worker_vars>>

(* -------------------------------- workers ------------------------------ *)

Logged(w, ops) == log' = [log EXCEPT ![w] = @ \o ops]

\* ConnLimits / Http09Limits: max_requests_per_connection for a version
max_requests_per_connection(version) ==
    IF version = "Http09" THEN Http09MaxRequests ELSE ConnMaxRequests

\* ConnLimits / Http09Limits: connection_lifetime for a version
connection_lifetime(version) ==
    IF version = "Http09" THEN Http09Lifetime ELSE ConnLifetime

\* HttpConnection::is_expired with the is_expired! macro
is_expired(resp, conn, http09) ==
    IF resp.version = "Http09" /\ ~http09 THEN "UnsupportedVersion"
    ELSE IF \/ ~resp.keep_alive
            \/ conn.request_count >= max_requests_per_connection(resp.version)
            \/ conn.elapsed > connection_lifetime(resp.version)
         THEN "expired" ELSE "alive"

\* mutant of run_match: an I/O error is answered like a parse error
run_match_answers_io(kind) == IF kind = NoError THEN "drop" ELSE "send_error"

\* HttpConnection::run: the match on the result of impl_run. Ok and Err(Io)
\* return to the worker loop, any other error goes to send_error
run_match(kind) ==
    IF kind \in {NoError, "Io"} THEN "drop" ELSE "send_error"

\* impl_run returns `kind` to run: the worker's next position and the error
\* run holds while it sends the canned response
Return(w, next, kind) ==
    /\ pc' = [pc EXCEPT ![w] = next]
    /\ error' = [error EXCEPT ![w] = IF next = "send_error" THEN kind ELSE NoError]

\* HttpConnection::impl_run: the loop condition `while !self.is_expired()?`
\* evaluated with the connection meta `conn`, then reset_request_response
LoopHead(w, conn) ==
    LET r == is_expired(response[w], conn, http_09_limits)
    IN  CASE r = "alive" ->
               /\ request' = [request EXCEPT ![w] = NewRequest]
               /\ response' = [response EXCEPT ![w] = NewResponse]
               /\ received' = [received EXCEPT ![w] = NoRequest]
               /\ Return(w, "fill_buffer", NoError)
          [] r = "expired" ->
               /\ Return(w, run_match(NoError), NoError)
               /\ UNCHANGED <<request, response, received>>
          [] OTHER ->
               /\ Return(w, run_match(r), r)
               /\ UNCHANGED <<request, response, received>>

\* what a rejecting filter leaves in the scratch Response: status(..).body(..)
\* extend the buffer as they find it
Rejection(resp) ==
    [resp EXCEPT !.state = "Complete", !.buffer = Append(@, "rejection")]

\* Response::status, debug_assert!(self.state == ResponseState::Clean): what
\* a rejecting filter can do with the scratch Response it is given. A build
\* with debug assertions panics on a Response that is not Clean, a build
\* without them goes on
RejectOutcomes(resp) ==
    IF resp.state = "Clean" THEN {"reject"} ELSE {"reject", "reject_panics"}

\* mutant of after_filter: filter_async is called whatever filter returned
after_filter_always_async(verdict) == "filter_async"

\* ServerBuilder::spawn_worker: `filter(..).is_err() || filter_async(..)`: the
\* asynchronous filter is evaluated only when the synchronous one returned Ok
after_filter(verdict) ==
    IF verdict = "accept" THEN "filter_async" ELSE "filter_write"

\* ServerBuilder::spawn_worker: get_stream returned the head of the queue;
\* stream.local_addr() (on Err the loop continues) and the synchronous
\* ConnectionFilter::filter follow without a suspension
GetStream(w) ==
    /\ w <= max_connections
    /\ pc[w] = "get_stream"
    /\ stream_queue # <<>>
    /\ takes' = [takes EXCEPT ![Head(stream_queue)] = @ + 1]
    /\ stream_queue' = pop(stream_queue)
    /\ \E outcome \in {"no_local_addr", "accept"} \cup RejectOutcomes(response[w]) :
         CASE outcome = "no_local_addr" ->
                /\ stream' = [stream EXCEPT ![w] = Head(stream_queue)]
                /\ pc' = [pc EXCEPT ![w] = "drop"]
                /\ UNCHANGED <<response, log>>
           [] outcome = "reject" ->
                /\ stream' = [stream EXCEPT ![w] = Head(stream_queue)]
                /\ pc' = [pc EXCEPT ![w] = after_filter(outcome)]
                /\ response' = [response EXCEPT ![w] = Rejection(@)]
                /\ Logged(w, <<"filter_rejects">>)
           [] outcome = "reject_panics" ->
                /\ stream' = [stream EXCEPT ![w] = NoStream]
                /\ pc' = [pc EXCEPT ![w] = "dead"]
                /\ Logged(w, <<"filter_panics">>)
                /\ UNCHANGED response
           [] OTHER ->
                /\ stream' = [stream EXCEPT ![w] = Head(stream_queue)]
                /\ pc' = [pc EXCEPT ![w] = after_filter(outcome)]
                /\ Logged(w, <<"filter">>)
                /\ UNCHANGED response
    /\ UNCHANGED <<limit_vars, accepted, launch, error_queue, alarm_vars,
                   request, connection, connection_data, error,
                   received, canned>>

\* mutant of connection_data_reset: the user state is left as it is
connection_data_kept(data) == data

\* ConnectionData::reset as impl_run calls it on entry: the user state S, here
\* the number of handler calls it has seen, returns to its initial value
connection_data_reset(data) == 0

\* ServerBuilder::spawn_worker: ConnectionFilter::filter_async returned. When
\* it accepts, HttpConnection::run starts: impl_run resets the connection meta
\* and the user state and evaluates its loop condition for the first time
FilterAsync(w) ==
    /\ pc[w] = "filter_async"
    /\ \E outcome \in {"accept"} \cup RejectOutcomes(response[w]) :
         CASE outcome = "accept" ->
                /\ connection' = [connection EXCEPT ![w] = NewConnection]
                /\ connection_data' = [connection_data EXCEPT
                                          ![w] = connection_data_reset(@)]
                /\ Logged(w, <<"filter_async", "run">>)
                /\ LoopHead(w, NewConnection)
                /\ UNCHANGED stream
           [] outcome = "reject" ->
                /\ pc' = [pc EXCEPT ![w] = "filter_write"]
                /\ response' = [response EXCEPT ![w] = Rejection(@)]
                /\ Logged(w, <<"filter_async_rejects">>)
                /\ UNCHANGED <<connection, connection_data, request, error,
                               received, stream>>
           [] OTHER ->
                /\ pc' = [pc EXCEPT ![w] = "dead"]
                /\ stream' = [stream EXCEPT ![w] = NoStream]
                /\ Logged(w, <<"filter_async_panics">>)
                /\ UNCHANGED <<connection, connection_data, request, response,
                               error, received>>
    /\ UNCHANGED <<server_vars, canned>>

\* ServerBuilder::spawn_worker: the rejection is written, its result ignored,
\* the Response reset and the loop continues
FilterWrite(w) ==
    /\ pc[w] = "filter_write"
    /\ \E result \in {"ok", "err", "timeout"} :
         Logged(w, <<IF result = "ok" THEN "reject" ELSE "reject_failed">>)
    /\ response' = [response EXCEPT ![w] = NewResponse]
    /\ pc' = [pc EXCEPT ![w] = "drop"]
    /\ UNCHANGED <<server_vars, stream, request, connection, connection_data,
                   error, received, canned>>

\* mutant of after_parse: the result of parse is not checked
after_parse_unchecked(kind) == "handle"

\* HttpConnection::impl_run: `self.parse()?` goes on to the handler on Ok and
\* returns the error to run otherwise
after_parse(kind) == IF kind = NoError THEN "handle" ELSE run_match(kind)

\* Parser::fill_buffer inside impl_run, and what follows it without a
\* suspension: the read wins with 0 bytes (impl_run breaks) or with a request,
\* which is parsed at once; or the read fails or the timer wins (Err(Io)).
\* `sent` is the set of requests the peer chooses from
FillBuffer(w, sent) ==
    /\ pc[w] = "fill_buffer"
    /\ \/ \E req \in sent :
            LET ps == parse(req, http_09_limits, request[w], response[w])
            IN  /\ received' = [received EXCEPT ![w] = req]
                /\ request' = [request EXCEPT ![w] = ps.request]
                /\ response' = [response EXCEPT ![w] = ps.response]
                /\ Logged(w, <<"read",
                     IF ps.error = NoError THEN "parse_ok" ELSE "parse_err">>)
                /\ Return(w, after_parse(ps.error), ps.error)
       \/ /\ Logged(w, <<"read_eof">>)
          /\ Return(w, run_match(NoError), NoError)
          /\ UNCHANGED <<request, response, received>>
       \/ \E op \in {"read_err", "read_timeout"} :
            /\ Logged(w, <<op>>)
            /\ Return(w, run_match("Io"), "Io")
            /\ UNCHANGED <<request, response, received>>
    /\ UNCHANGED <<server_vars, stream, connection, connection_data, canned>>

\* mutant of close: keep_alive is left as it is
close_forgets(resp) == resp

\* Response::close
close(resp) == [resp EXCEPT !.keep_alive = FALSE]

\* Response::body / body_with / http09*: the finalizing call of a handler
body(resp) == [resp EXCEPT !.state = "Complete", !.buffer = Append(@, "response")]

\* Handler::handle as called by impl_run: the handler finishes the response,
\* with or without close(), or panics, which ends the worker task: nothing
\* catches the unwinding inside the task tokio::spawn started
Handle(w) ==
    /\ pc[w] = "handle"
    /\ \/ /\ response' = [response EXCEPT ![w] = body(@)]
          /\ connection_data' = [connection_data EXCEPT ![w] = @ + 1]
          /\ Logged(w, <<"handle">>)
          /\ pc' = [pc EXCEPT ![w] = "write_bytes"]
          /\ UNCHANGED stream
       \/ /\ response' = [response EXCEPT ![w] = body(close(@))]
          /\ connection_data' = [connection_data EXCEPT ![w] = @ + 1]
          /\ Logged(w, <<"handle_close">>)
          /\ pc' = [pc EXCEPT ![w] = "write_bytes"]
          /\ UNCHANGED stream
       \/ /\ Logged(w, <<"handle_panic">>)
          /\ pc' = [pc EXCEPT ![w] = "dead"]
          /\ stream' = [stream EXCEPT ![w] = NoStream]
          /\ UNCHANGED <<response, connection_data>>
    /\ UNCHANGED <<server_vars, request, connection, error, received, canned>>

\* mutant of after_write: impl_run breaks after every response
after_write_breaks(result, keep_alive) ==
    IF result # "ok" THEN run_match("Io") ELSE run_match(NoError)

\* mutant of after_write: the result of write_bytes is dropped
after_write_unchecked(result, keep_alive) ==
    IF keep_alive THEN "loop" ELSE run_match(NoError)

\* HttpConnection::impl_run after write_bytes: `?` on the result, then the
\* break on !keep_alive, else the loop goes round
after_write(result, keep_alive) ==
    IF result # "ok" THEN run_match("Io")
    ELSE IF keep_alive THEN "loop" ELSE run_match(NoError)

\* ConnLimits::write_bytes inside impl_run: write_all wins, fails, or the timer
\* wins; on Ok with keep_alive request_count is incremented and the loop
\* condition evaluated again
WriteBytes(w) ==
    /\ pc[w] = "write_bytes"
    /\ \E result \in {"ok", "err", "timeout"} :
         LET next == after_write(result, response[w].keep_alive)
             conn == [connection[w] EXCEPT !.request_count = @ + 1]
         IN  /\ Logged(w, <<CASE result = "ok" -> "write"
                              [] result = "err" -> "write_err"
                              [] OTHER -> "write_timeout">>)
             /\ IF next = "loop"
                THEN /\ connection' = [connection EXCEPT ![w] = conn]
                     /\ LoopHead(w, conn)
                ELSE /\ Return(w, next, "Io")
                     /\ UNCHANGED <<connection, request, response, received>>
    /\ UNCHANGED <<server_vars, stream, connection_data, canned>>

\* ConnLimits::send_error as called by run: the canned response for the error,
\* the version of the Request and json_errors; run returns its result
SendError(w) ==
    /\ pc[w] = "send_error"
    /\ canned' = [canned EXCEPT ![w] =
                    as_http(error[w], request[w].version, json_errors)]
    /\ \E result \in {"ok", "err", "timeout"} :
         Logged(w, <<IF result = "ok" THEN "send_error" ELSE "send_error_failed">>)
    /\ pc' = [pc EXCEPT ![w] = "drop"]
    /\ error' = [error EXCEPT ![w] = NoError]
    /\ UNCHANGED <<server_vars, stream, response, request, connection,
                   connection_data, received>>

\* ServerBuilder::spawn_worker: the end of the loop body. The stream goes out
\* of scope, which closes it, and the worker polls the queue again. The record
\* of the stream's traffic ends with the stream, and so does the model's
\* interest in the age of the connection
DropStream(w) ==
    /\ pc[w] = "drop"
    /\ stream' = [stream EXCEPT ![w] = NoStream]
    /\ log' = [log EXCEPT ![w] = <<>>]
    /\ canned' = [canned EXCEPT ![w] = NoCanned]
    /\ received' = [received EXCEPT ![w] = NoRequest]
    /\ connection' = [connection EXCEPT ![w].elapsed = MaxElapsed]
    /\ pc' = [pc EXCEPT ![w] = "get_stream"]
    /\ UNCHANGED <<server_vars, response, request, connection_data, error>>

\* Instant::elapsed: time passes while a connection waits on the socket or on
\* the handler
Tick(w) ==
    /\ pc[w] \in {"fill_buffer", "handle", "write_bytes"}
    /\ connection[w].elapsed < MaxElapsed
    /\ connection' = [connection EXCEPT ![w].elapsed = @ + 1]
    /\ UNCHANGED <<server_vars, pc, stream, response, request, connection_data,
                   error, received, log, canned>>

(* ------------------------- the handler's builder calls ----------------- *)

\* A handler calls `method` on its Response. In a build with debug assertions
\* a failed debug_assert! panics before the method has changed anything; a
\* build without them goes on
Call(method, size) ==
    /\ ~builder.panicked
    /\ Len(builder.calls) < MaxCalls
    /\ builder' =
         IF builder.debug_assertions /\ ~asserts(method, builder.resp)
         THEN [builder EXCEPT !.calls = Append(@, method), !.panicked = TRUE]
         ELSE [builder EXCEPT !.calls = Append(@, method),
                              !.resp = applied(method, @, size)]
    /\ UNCHANGED <<json_errors, http_09_limits, max_connections,
                   count_503_handlers, parser, accepted, launch, stream_queue,
                   error_queue, alarm_vars, takes, worker_vars>>

CallStatus == Call("status", Bytes(0))
CallHeader == \E method \in HeaderMethods : Call(method, Bytes(0))
CallBody == \E method \in BodyMethods : \E size \in BodyLengths : Call(method, size)
CallHttp09 == \E method \in Http09Methods : Call(method, Bytes(12))
CallClose == Call("close", Bytes(0))

\* HttpConnection::reset_request_response and the next parse: the Response
\* is reset and gets the version and keep_alive of the next request
ResetResponse ==
    /\ ~builder.panicked
    /\ builder.calls # <<>>
    /\ \E version \in Versions : \E keep_alive \in BOOLEAN :
         builder' = [builder EXCEPT !.resp = Response_new(version, keep_alive),
                                    !.calls = <<>>]
    /\ UNCHANGED <<json_errors, http_09_limits, max_connections,
                   count_503_handlers, parser, accepted, launch, stream_queue,
                   error_queue, alarm_vars, takes, worker_vars>>

(* --------------------------- parsing the lines ------------------------- *)

\* HttpConnection::parse, a step for each call
ParseStep(at, next) ==
    /\ parser.at = at
    /\ parser' = next
    /\ UNCHANGED <<json_errors, http_09_limits, max_connections,
                   count_503_handlers, builder, accepted, launch, stream_queue,
                   error_queue, alarm_vars, takes, worker_vars>>

ParseMethod == ParseStep("parse_method", Parser_parse_method(parser))
ParseUrl == ParseStep("parse_url", Parser_parse_url(parser, http_09_limits))
CheckHttp09 == ParseStep("check_http09", Parser_check_http09(parser, http_09_limits))
CheckVersion == ParseStep("check_version", Parser_check_version(parser))
ParseHeader == ParseStep("parse_header", parse_header(parser))
CheckBody == ParseStep("check_body", Parser_check_body(parser))

\* the handler asks for a query parameter as text
QueryStr ==
    \E i \in DOMAIN parser.query_parts : \E text \in query_str(parser, i) :
      ParseStep("handle", [parser EXCEPT !.at = "read", !.text = text])

\* Query::parse: a new collection of the capacity `limit`, then parse_into
Query_parse(query, limit) ==
    [at |-> IF parse_into(query, limit).error = NoError THEN "parsed" ELSE "failed",
     query |-> query,
     limit |-> limit,
     error |-> parse_into(query, limit).error,
     pairs |-> parse_into(query, limit).pairs]

\* HttpConnection::impl_run: reset_request_response at the head of the loop,
\* after a handled request or, for the next stream, after the run before ended
ResetRequestResponse ==
    \E at \in {"handle", "error", "eof"} :
      ParseStep(at, Parser_reset_request_response(parser))

\* HttpConnection::impl_run: fill_buffer returns what one read of the socket
\* gave, which the peer and the network choose
FillBufferOf(reads) ==
    /\ parser.reads < MaxReads
    /\ \E bytes \in reads : ParseStep("fill_buffer", Parser_fill_buffer(parser, bytes))

\* a caller hands its query string to Query::parse
QueryParse == ParseStep("query", Query_parse(parser.query, parser.limit))

\* the canned response of an error is taken from the table
AsHttp ==
    ParseStep("as_http",
              [parser EXCEPT !.at = "canned",
                             !.canned = as_bytes(parser.kind, parser.version,
                                                 parser.json)])

(* ---------------------------- specification ---------------------------- *)

\* the accept loop and the 503 responder
Admission ==
    \/ LaunchAccept
    \/ LaunchPush
    \/ \E a \in Alarmists : AlarmistGetStream(a)
    \/ \E a \in Alarmists : AlarmistSendError(a)
    \/ \E a \in Alarmists : QuietAlarmist(a)

\* the steps of worker w before and after the connection engine
Pool(w) ==
    \/ GetStream(w)
    \/ FilterAsync(w)
    \/ FilterWrite(w)
    \/ DropStream(w)

\* the steps of the connection engine of worker w, apart from the read
Engine(w) ==
    \/ Handle(w)
    \/ WriteBytes(w)
    \/ SendError(w)

\* the whole server
Next ==
    \/ Admission
    \/ \E w \in Workers : Pool(w)
    \/ \E w \in Workers : FillBuffer(w, Requests)
    \/ \E w \in Workers : Engine(w)
    \/ \E w \in Workers : Tick(w)

Spec == Init /\ [][Next]_vars

\* The connection engine: the server while only its first worker is scheduled.
\* Workers share nothing but the admission queue, so what one worker does on
\* its streams is what it does here
InitEngine == Init /\ max_connections = 1

\* the steps of the accept loop, the 503 responders and the first worker
NextEngine ==
    \/ Admission
    \/ Pool(1)
    \/ FillBuffer(1, Requests)
    \/ Engine(1)
    \/ Tick(1)

SpecEngine == InitEngine /\ [][NextEngine]_vars

\* the requests the peers of the pool send: one that is answered and one that
\* is refused, each the only request of its connection
PoolRequests ==
    { Req("Get", "Http10", FALSE, "none", NoError),
      Req("Invalid", "Http11", FALSE, "none", "InvalidMethod") }

\* a server built without Http09Limits, as ServerBuilder does by default, and
\* with MaxConnections workers
InitPool == Init /\ ~http_09_limits /\ max_connections = MaxConnections

\* The pool: every worker is scheduled, the peers send PoolRequests and no
\* connection waits long enough to reach its lifetime
NextPool ==
    \/ Admission
    \/ \E w \in Workers : Pool(w)
    \/ \E w \in Workers : FillBuffer(w, PoolRequests)
    \/ \E w \in Workers : Engine(w)

SpecPool == InitPool /\ [][NextPool]_vars

\* a server of one worker, otherwise built by default: no Http09Limits, one
\* 503 responder, JSON error bodies
InitFair ==
    /\ Init
    /\ ~http_09_limits
    /\ max_connections = 1
    /\ json_errors
    /\ count_503_handlers = 1

\* Handler::handle when the call returns
HandleReturns(w) == Handle(w) /\ pc'[w] # "dead"

\* what the task of worker w does next, every handler call returning and
\* every socket operation completing or timing out
WorkerStep(w) ==
    \/ Pool(w)
    \/ FillBuffer(w, PoolRequests)
    \/ HandleReturns(w)
    \/ WriteBytes(w)
    \/ SendError(w)

\* the accept loop, which takes MaxFairStreams connections
LaunchAcceptFair == LaunchAcceptOf(MaxFairStreams)

NextFair ==
    \/ LaunchAcceptFair
    \/ LaunchPush
    \/ \E a \in Alarmists : AlarmistGetStream(a)
    \/ \E a \in Alarmists : AlarmistSendError(a)
    \/ \E w \in Workers : WorkerStep(w)

\* The pool under the scheduling of the tokio runtime: a task that can take
\* a step is polled again, be it yield_now or the timer of tokio_sleep that
\* wakes it in get_stream
SpecFair ==
    /\ InitFair
    /\ [][NextFair]_vars
    /\ \A w \in Workers : WF_vars(WorkerStep(w))
    /\ WF_vars(LaunchPush)
    /\ \A a \in Alarmists : WF_vars(AlarmistGetStream(a) \/ AlarmistSendError(a))

\* a handler at work on the Response of a request of any version, in a build
\* with or without debug assertions; the server around it is left as built
InitBuilder ==
    /\ InitServer
    /\ json_errors /\ ~http_09_limits
    /\ max_connections = 1 /\ count_503_handlers = 1
    /\ parser = NoParser
    /\ \E version \in Versions : \E keep_alive \in BOOLEAN :
         \E debug \in BOOLEAN :
           builder = [resp |-> Response_new(version, keep_alive),
                      calls |-> <<>>, panicked |-> FALSE,
                      debug_assertions |-> debug]

NextBuilder ==
    \/ CallStatus
    \/ CallHeader
    \/ CallBody
    \/ CallHttp09
    \/ CallClose
    \/ ResetResponse

SpecBuilder == InitBuilder /\ [][NextBuilder]_vars

\* the requests whose lines end each in its own way
LineRequests ==
    UNION {{RequestBytes(ends) : ends \in [1 .. n + 2 -> Terminators]} :
             n \in 0 .. MaxHeaderLines}

\* the Parser holds the bytes of one request, its method and target parsed;
\* the server around it is left as built
InitParser ==
    /\ InitServer
    /\ json_errors /\ ~http_09_limits
    /\ max_connections = 1 /\ count_503_handlers = 1
    /\ builder = NoBuilder
    /\ \E bytes \in LineRequests : parser = Parser_from(bytes)

NextParser ==
    \/ CheckVersion
    \/ ParseHeader
    \/ CheckBody

SpecParser == InitParser /\ [][NextParser]_vars

\* the bytes of whole requests
CRLF == <<"CR", "LF">>
FirstLine(method, path, version) ==
    method \o <<" ">> \o path \o <<" ">> \o version \o CRLF
HeaderLine(name, value) == name \o <<":", " ">> \o value \o CRLF

RECURSIVE Concat(_)
Concat(seqs) == IF seqs = <<>> THEN <<>> ELSE Head(seqs) \o Concat(Tail(seqs))

GetText == <<"G", "E", "T">>
PostText == <<"P", "O", "S", "T">>
RootPath == <<"/">>

\* requests with and without a Content-Length and with bodies of every
\* length up to one more than body_size
ContentLengthText ==
    <<"C", "o", "n", "t", "e", "n", "t", "-", "L", "e", "n", "g", "t", "h">>
ContentLengthValues ==
    {<<>>, <<"0">>, <<"1">>, <<"2">>, <<"3">>, <<"4">>, <<"0", "3">>,
     <<"6", "5", "5", "3", "5">>, <<"6", "5", "5", "3", "6">>,
     <<"9", "9", "9", "9", "9">>, <<"6", "5", "5", "3", "5", "0">>,
     <<"1", "a">>, <<"-", "1">>, <<"+", "1">>, <<"1", " ">>, <<"x">>}
BodyOf(n) == [i \in 1 .. n |-> "b"]
BodyRequest(lines, n) ==
    FirstLine(PostText, RootPath, Http11Text) \o lines \o CRLF \o BodyOf(n)
BodyRequests ==
    {BodyRequest(lines, n) :
       lines \in {<<>>} \cup {HeaderLine(ContentLengthText, v) :
                                v \in ContentLengthValues},
       n \in 0 .. body_size + 1}

\* requests of both versions with and without a Connection header
ConnectionTexts ==
    {<<"C", "o", "n", "n", "e", "c", "t", "i", "o", "n">>,
     <<"c", "o", "n", "n", "e", "c", "t", "i", "o", "n">>,
     <<"C", "O", "N", "N", "E", "C", "T", "I", "O", "N">>}
ConnectionValues ==
    {<<"k", "e", "e", "p", "-", "a", "l", "i", "v", "e">>,
     <<"K", "e", "e", "p", "-", "A", "l", "i", "v", "e">>,
     <<"K", "E", "E", "P", "-", "A", "L", "I", "V", "E">>,
     <<"c", "l", "o", "s", "e">>, <<"C", "l", "o", "s", "e">>,
     <<"C", "L", "O", "S", "E">>,
     <<"c", "l", "o", "s", "e", "d">>, <<"k", "e", "e", "p", "_", "a", "l", "i", "v", "e">>,
     <<"k", "e", "e", "p">>, <<"u", "p", "g", "r", "a", "d", "e">>, <<>>}
ConnectionLines ==
    {HeaderLine(name, value) : name \in ConnectionTexts, value \in ConnectionValues}
ConnectionRequest(version, lines) ==
    FirstLine(GetText, RootPath, version) \o lines \o CRLF
ConnectionRequests ==
    {ConnectionRequest(version, lines) :
       version \in {Http11Text, Http10Text},
       lines \in {<<>>} \cup ConnectionLines
                 \cup {HeaderLine(ConnectionName, a) \o HeaderLine(ConnectionName, b) :
                         a, b \in {KeepAliveValue, CloseValue}}}

\* requests of up to MaxHeaderLines + 2 header lines, each an ordinary header,
\* a Content-Length or a Connection header
CountedLines ==
    {HeaderLine(<<"h">>, <<"v">>), HeaderLine(ContentLengthText, <<"0">>),
     HeaderLine(ConnectionName, CloseValue)}
CountedRequest(lines) ==
    FirstLine(GetText, RootPath, Http11Text) \o Concat(lines) \o CRLF
CountedRequests ==
    UNION {{CountedRequest(lines) : lines \in [1 .. n -> CountedLines]} :
             n \in 0 .. MaxHeaderLines + 2}

\* requests for every target of '/' and 'a' up to MaxPathLen bytes and of
\* '/', 'a', '?', '=' and the byte 0xFF up to four bytes
PathRequest(path) == FirstLine(GetText, path, Http11Text) \o CRLF
PathRequests ==
    UNION {{PathRequest(path) : path \in [1 .. n -> {"/", "a"}]} :
             n \in 1 .. MaxPathLen}
      \cup
    UNION {{PathRequest(path) : path \in [1 .. n -> {"/", "a", "?", "=", "xFF"}]} :
             n \in 1 .. 4}

\* request lines without a version, of every method
Paths09 ==
    {<<"/">>, <<"/", "a">>, <<"/", "/", "a">>, <<"/", "a", "?", "a">>,
     KeepAliveMarker, KeepAliveMarker \o <<"/">>,
     KeepAliveMarker \o <<"/", "a">>, KeepAliveMarker \o <<"a">>,
     KeepAliveMarker \o <<"a", "/", "a">>, KeepAliveMarker \o <<"?", "a">>,
     KeepAliveMarker \o <<"/", "/", "a">>,
     <<"/", "a">> \o KeepAliveMarker, <<"/", "k", "e", "e", "p">>}
Request09(m, path, end) == MethodNames[m][2] \o <<" ">> \o path \o end
Requests09 ==
    {Request09(m, path, end) :
       m \in 1 .. Len(MethodNames), path \in Paths09, end \in {CRLF, <<"LF">>}}

WireRequests ==
    BodyRequests \cup ConnectionRequests \cup CountedRequests \cup PathRequests
      \cup Requests09

\* the Parser holds the bytes one read returned; the server is built with or
\* without Http09Limits
InitRequest ==
    /\ InitServer
    /\ json_errors
    /\ max_connections = 1 /\ count_503_handlers = 1
    /\ builder = NoBuilder
    /\ \E bytes \in WireRequests : parser = Parser_read(bytes)

NextRequest ==
    \/ ParseMethod
    \/ ParseUrl
    \/ CheckHttp09
    \/ CheckVersion
    \/ ParseHeader
    \/ CheckBody
    \/ QueryStr

SpecRequest == InitRequest /\ [][NextRequest]_vars

\* what a read may return: a whole request, or a request cut in two by the
\* network, each part returned by a read of its own, or nothing
WholeReads ==
    {FirstLine(GetText, RootPath, Http11Text) \o CRLF,
     FirstLine(GetText, <<"/", "a">>, Http10Text) \o <<"LF", "LF">>,
     BodyRequest(HeaderLine(ContentLengthText, <<"2">>), 2),
     BodyRequest(HeaderLine(ContentLengthText, <<"1">>), 2),
     Request09(1, <<"/", "a">>, CRLF)}
CutReads ==
    UNION {UNION {{SubSeq(bytes, 1, k), SubSeq(bytes, k + 1, Len(bytes))} :
                    k \in 1 .. Len(bytes) - 1} :
             bytes \in WholeReads}
Reads == WholeReads \cup CutReads \cup {<<>>}

ReadSocket == FillBufferOf(Reads)

\* one Parser from its construction on, serving read after read
InitReads ==
    /\ InitServer
    /\ json_errors
    /\ max_connections = 1 /\ count_503_handlers = 1
    /\ builder = NoBuilder
    /\ parser = Parser_new

NextReads ==
    \/ ReadSocket
    \/ ParseMethod
    \/ ParseUrl
    \/ CheckHttp09
    \/ CheckVersion
    \/ ParseHeader
    \/ CheckBody
    \/ ResetRequestResponse

SpecReads == InitReads /\ [][NextReads]_vars

\* the query strings of at most MaxQueryLen bytes, the separators among them
QueryBytes == {"?", "&", "=", "a", "b"}
Queries == UNION {[1 .. n -> QueryBytes] : n \in 0 .. MaxQueryLen}

\* Query::parse is called with a query string and a limit
InitQuery ==
    /\ InitServer
    /\ json_errors /\ http_09_limits
    /\ max_connections = 1 /\ count_503_handlers = 1
    /\ builder = NoBuilder
    /\ \E query \in Queries, limit \in 1 .. MaxQueryLen + 1 :
         parser = [at |-> "query", query |-> query, limit |-> limit,
                   error |-> NoError, pairs |-> <<>>]

NextQuery == QueryParse

SpecQuery == InitQuery /\ [][NextQuery]_vars

(* ------------------------------- properties ---------------------------- *)

LastOp(l) == IF l = <<>> THEN "none" ELSE l[Len(l)]
Positions(l, ops) == {i \in 1 .. Len(l) : l[i] \in ops}

ReadOps == {"read", "read_eof", "read_err", "read_timeout"}
ParseOps == {"parse_ok", "parse_err"}
HandleOps == {"handle", "handle_close", "handle_panic"}
WriteOps == {"write", "write_err", "write_timeout"}
SendOps == {"send_error", "send_error_failed"}

\* C1: on one connection the steps go read, parse, handle, write, one request
\* at a time: a read comes first on the stream or right after a response was
\* written in full, a parse right after the read that delivered the request,
\* a handler call right after a successful parse, and a write right after the
\* handler returned
C1_OneRequestAtATime ==
    \A w \in Workers : \A i \in 1 .. Len(log[w]) :
        /\ log[w][i] \in ReadOps => i > 1 /\ log[w][i - 1] \in {"run", "write"}
        /\ log[w][i] \in ParseOps => i > 1 /\ log[w][i - 1] = "read"
        /\ log[w][i] \in HandleOps => i > 1 /\ log[w][i - 1] = "parse_ok"
        /\ log[w][i] \in WriteOps =>
              i > 1 /\ log[w][i - 1] \in {"handle", "handle_close"}

\* a second request is read on a connection, after the first response was written
C1_Witness ==
    \E w \in Workers : \E i \in 1 .. Len(log[w]) - 1 :
        log[w][i] = "write" /\ log[w][i + 1] = "read"

\* C2: the handler is invoked exactly once for each request that parsed, and
\* not at all after a failed parse, a read of zero bytes or a failed read: every
\* handler call directly follows a successful parse, and every successful parse
\* is directly followed by a handler call (which is the worker's next step
\* while it has not happened yet)
C2_HandlerOncePerParsedRequest ==
    \A w \in Workers :
        /\ \A i \in 1 .. Len(log[w]) :
              /\ log[w][i] \in HandleOps => i > 1 /\ log[w][i - 1] = "parse_ok"
              /\ log[w][i] = "parse_ok" =>
                    IF i = Len(log[w]) THEN pc[w] = "handle"
                    ELSE log[w][i + 1] \in HandleOps
        /\ pc[w] = "handle" => LastOp(log[w]) = "parse_ok"
        /\ Cardinality(Positions(log[w], HandleOps)) <=
              Cardinality(Positions(log[w], {"parse_ok"}))

\* a request of a connection was parsed and handled, and the next read ended
\* the connection without a handler call
C2_Witness ==
    \E w \in Workers :
        /\ Positions(log[w], {"handle"}) # {}
        /\ LastOp(log[w]) \in {"read_eof", "parse_err"}

\* the canned response the error table holds for (kind, version, json)
CannedFor(kind, version, json) ==
    [line |-> version, status |-> StatusOf(kind),
     body |-> IF version = "Http09" THEN "ERROR"
              ELSE IF json THEN kind ELSE "empty"]

\* the error a request fails with
FailureOf(req, http09) ==
    IF req.method = "Invalid" THEN "InvalidMethod"
    ELSE IF req.form = "Http09" /\ ~(http09 /\ req.method = "Get") THEN "InvalidUrl"
    ELSE req.defect

\* the version the Request holds when the parse of req fails: the version of
\* the request line once the parser has recognised it, HTTP/1.1 before that
RecordedVersion(req, http09) ==
    IF req.form = "Http09"
    THEN IF http09 /\ req.method = "Get" THEN "Http09" ELSE "Http11"
    ELSE IF req.defect \in HeaderErrors \cup BodyErrors THEN req.form
    ELSE "Http11"

\* the version a failed request announces on its request line, where it
\* announces one of HTTP/1.0 and HTTP/1.1
AnnouncedVersion(req, http09) ==
    IF req.form \in {"Http11", "Http10"} THEN req.form
    ELSE RecordedVersion(req, http09)

\* what C3 says of worker w, with `version` the version of a failed request
C3_Body(w, version(_, _)) ==
    /\ LastOp(log[w]) = "parse_err" => pc[w] = "send_error" /\ canned[w] = NoCanned
    /\ \A i \in 1 .. Len(log[w]) :
          log[w][i] = "parse_err" =>
             /\ i >= Len(log[w]) - 1
             /\ i < Len(log[w]) => log[w][i + 1] \in SendOps /\ pc[w] = "drop"
    /\ canned[w] # NoCanned =>
          /\ pc[w] = "drop"
          /\ Cardinality(Positions(log[w], SendOps)) = 1
          /\ Len(log[w]) >= 2
          /\ log[w][Len(log[w]) - 1] = "parse_err"
          /\ canned[w] = CannedFor(FailureOf(received[w], http_09_limits),
                                   version(received[w], http_09_limits),
                                   json_errors)

\* C3 (amended): when the parse of a request fails with a kind other than Io,
\* the engine writes exactly one canned response, the one the table holds for
\* the error kind, the version the Request had recorded when the parse failed
\* (HTTP/1.1 until the parser has recognised the version of the request line)
\* and json_errors, and then ends the connection: nothing is read or handled
\* after it
C3_CannedForRecordedVersion == \A w \in Workers : C3_Body(w, RecordedVersion)

\* a request with a defect in its headers was answered in its own version,
\* HTTP/1.0, and the connection is over
C3_Witness ==
    \E w \in Workers :
        /\ pc[w] = "drop"
        /\ LastOp(log[w]) = "send_error"
        /\ received[w].defect \in HeaderErrors
        /\ canned[w].line = "Http10"

\* C3 as stated: the canned response is the one for the error kind, the
\* version of the failed request and json_errors
C3_CannedForRequestVersion == \A w \in Workers : C3_Body(w, AnnouncedVersion)

IoFailures == {"read_err", "read_timeout", "write_err", "write_timeout"}

\* C4: when a read or a write of the engine fails or times out, the connection
\* ends there: the failure is the last step on the stream, the worker goes on
\* to drop the stream, and no canned response was written
C4_IoEndsConnectionSilently ==
    \A w \in Workers : \A i \in 1 .. Len(log[w]) :
        log[w][i] \in IoFailures =>
            /\ i = Len(log[w])
            /\ pc[w] = "drop"
            /\ canned[w] = NoCanned
            /\ error[w] = NoError

\* the write of the second response of a connection timed out
C4_Witness ==
    \E w \in Workers :
        /\ LastOp(log[w]) = "write_timeout"
        /\ Positions(log[w], {"write"}) # {}

\* the is_expired predicate of the specification, for a version
Expired(version, conn) ==
    \/ conn.request_count >= max_requests_per_connection(version)
    \/ conn.elapsed > connection_lifetime(version)

\* C5: after a response was written in full the engine goes on to read the
\* next request exactly when keep_alive is set on the response and the
\* connection is not expired, and a response the handler closed is the last
\* one of its connection
C5_KeepAliveDecides ==
    [][\A w \in Workers :
          (pc[w] = "write_bytes" /\ LastOp(log'[w]) = "write"
              /\ Len(log'[w]) = Len(log[w]) + 1) =>
             /\ pc'[w] = "fill_buffer" <=>
                   (response[w].keep_alive
                      /\ ~Expired(response[w].version, connection'[w]))
             /\ pc'[w] # "fill_buffer" => pc'[w] = "drop"
             /\ LastOp(log[w]) = "handle_close" => pc'[w] = "drop"]_vars

\* the handler closed the response of an HTTP/1.1 request that asked for
\* keep-alive; the response was written and the connection is over
C5_Witness ==
    \E w \in Workers :
        /\ pc[w] = "drop"
        /\ LastOp(log[w]) = "write"
        /\ log[w][Len(log[w]) - 1] = "handle_close"
        /\ received[w] = Req("Get", "Http11", FALSE, "keep-alive", NoError)

\* C6: on every connection request_count starts at 0, and the number of
\* requests handled never exceeds max_requests_per_connection of the protocol
\* in use, the protocol of the request the handler has just served
C6_HandledWithinLimit ==
    \A w \in Workers :
        /\ LastOp(log[w]) = "run" => connection[w].request_count = 0
        /\ LastOp(log[w]) \in {"handle", "handle_close"} =>
              Cardinality(Positions(log[w], {"handle", "handle_close"}))
                 <= max_requests_per_connection(response[w].version)

\* C7: whatever ended the previous connection of a worker, the next stream
\* meets a fresh Response (keep_alive, HTTP/1.1, Clean) when the worker starts
\* on it, and the engine does not return from it before it has read from it
C7_NextConnectionStartsFresh ==
    \A w \in Workers :
        /\ pc[w] = "filter_async" => response[w] = NewResponse
        /\ LastOp(log[w]) = "run" => pc[w] = "fill_buffer"

\* C8: no worker is lost: a worker whose handler panicked is still one of the
\* max_connections live workers
C8_WorkersSurvive ==
    Cardinality({w \in Workers : pc[w] # "dead"}) = MaxConnections

\* C9: the pool is the fixed set of max_connections workers, so at most
\* max_connections streams are served at a time, and a stream taken from the
\* admission queue is with one worker only: no stream is popped twice, held by
\* two workers, or still queued while a worker has it
C9_OneWorkerPerStream ==
    /\ DOMAIN pc = 1 .. MaxConnections
    /\ Cardinality({w \in Workers : stream[w] # NoStream}) <= MaxConnections
    /\ \A s \in Streams :
          /\ takes[s] <= 1
          /\ Cardinality({w \in Workers : stream[w] = s}) <= takes[s]
          /\ takes[s] = 1 => \A i \in 1 .. Len(stream_queue) : stream_queue[i] # s

\* two workers of the pool are serving a stream each at the same time
C9_Witness ==
    \E v, w \in Workers :
        /\ v # w
        /\ pc[v] = "handle" /\ pc[w] = "handle"
        /\ stream[v] # NoStream /\ stream[w] # NoStream
        /\ stream[v] # stream[w]

\* C10: the admission queue never holds more than max_pending_connections
\* streams: the accept loop chooses the admission queue for a stream exactly
\* when the length it reads is below max_pending_connections, and pushes the
\* stream into the queue it chose, the error queue otherwise
C10_AdmissionBounded ==
    [][/\ (launch.pc = "accept" /\ launch'.pc = "push") =>
             (launch'.admit <=> Len(stream_queue) < MaxPendingConnections)
       /\ (launch.pc = "push" /\ launch'.pc = "accept") =>
             IF launch.admit
             THEN /\ stream_queue' = Append(stream_queue, launch.value)
                  /\ error_queue' = error_queue
             ELSE /\ error_queue' = Append(error_queue, launch.value)
                  /\ stream_queue' = stream_queue
       /\ Len(stream_queue') <= MaxPendingConnections]_vars

\* the admission queue is full and a further stream went to the error queue
C10_Witness ==
    /\ Len(stream_queue) = MaxPendingConnections
    /\ error_queue # <<>>

FilterOps == {"filter", "filter_rejects", "filter_panics"}
FilterAsyncOps == {"filter_async", "filter_async_rejects", "filter_async_panics"}
RejectOps == {"reject", "reject_failed"}
EngineOps == ReadOps \cup ParseOps \cup HandleOps \cup WriteOps \cup SendOps

\* C11: on every stream a worker takes the synchronous filter is called
\* first, the asynchronous filter only after the synchronous one accepted; the
\* rejection of either is followed by the write of the filter's response and
\* by nothing of the engine or the handler, and after both accepted the engine
\* runs
C11_FiltersGateTheEngine ==
    \A w \in Workers :
        /\ log[w] # <<>> => log[w][1] \in FilterOps
        /\ LastOp(log[w]) = "filter" => pc[w] = "filter_async"
        /\ LastOp(log[w]) \in {"filter_rejects", "filter_async_rejects"} =>
              pc[w] = "filter_write"
        /\ \A i \in 1 .. Len(log[w]) :
              /\ log[w][i] \in FilterOps => i = 1
              /\ log[w][i] \in FilterAsyncOps => i = 2 /\ log[w][1] = "filter"
              /\ log[w][i] \in RejectOps =>
                    /\ i = Len(log[w]) /\ i > 1
                    /\ log[w][i - 1] \in {"filter_rejects", "filter_async_rejects"}
              /\ log[w][i] = "filter_async" =>
                    Len(log[w]) > i /\ log[w][i + 1] = "run"
              /\ log[w][i] = "run" => i = 3 /\ log[w][2] = "filter_async"
              /\ log[w][i] \in EngineOps => i > 3 /\ log[w][3] = "run"

\* the synchronous filter accepted a stream, the asynchronous one rejected it,
\* and the rejection was written
C11_Witness ==
    \E w \in Workers : log[w] = <<"filter", "filter_async_rejects", "reject">>

\* C12: every filter invocation finds the scratch Response Clean with an
\* empty buffer (a worker is about to call filter when it polls the queue, and
\* filter_async when filter has accepted), and what a worker writes after a
\* rejection is the rejection message alone
C12_RejectionIsAllThatIsWritten ==
    \A w \in Workers :
        /\ pc[w] \in {"get_stream", "filter_async"} =>
              response[w].state = "Clean" /\ response[w].buffer = <<>>
        /\ pc[w] = "filter_write" => response[w].buffer = <<"rejection">>

\* the streams the accept loop routed to the error queue that are in it or
\* have left it
Overflowed == {s \in Streams :
                 \/ error_takes[s] > 0
                 \/ \E i \in 1 .. Len(error_queue) : error_queue[i] = s}

\* C13: a stream routed to the error queue is taken by one 503 responder at
\* most and by no worker, so it never reaches the handler; the responder that
\* took it writes the canned 503 Service Unavailable response for HTTP/1.1
\* when count_503_handlers > 0 and closes it without a byte written when
\* count_503_handlers = 0
C13_OverflowAnsweredOnce ==
    \A s \in Streams :
        /\ error_takes[s] <= 1
        /\ Cardinality({a \in Alarmists : alarmist[a] = s}) <= error_takes[s]
        /\ Cardinality({i \in 1 .. Len(error_queue) : error_queue[i] = s})
              + error_takes[s] <= 1
        /\ s \in Overflowed =>
              /\ takes[s] = 0
              /\ \A w \in Workers : stream[w] # s
              /\ \A i \in 1 .. Len(stream_queue) : stream_queue[i] # s
        /\ answered[s] # NoCanned =>
              /\ error_takes[s] = 1
              /\ \A a \in Alarmists : alarmist[a] # s
              /\ answered[s] =
                    IF count_503_handlers = 0 THEN Dropped
                    ELSE CannedFor("ServiceUnavailable", "Http11", json_errors)
        /\ \A a \in Alarmists :
              alarmist[a] # NoStream => Spawned(a) /\ count_503_handlers > 0

\* a server built with count_503_handlers = 0 closed an overflowing stream in
\* silence while a worker was serving the stream that had been admitted
C13_Witness ==
    /\ count_503_handlers = 0
    /\ \E s \in Streams : answered[s] = Dropped
    /\ \E w \in Workers : pc[w] = "handle"

\* C14: a stream placed in the admission queue is eventually taken by a
\* worker, when scheduling is fair, every handler call returns and every
\* socket operation completes or times out
C14_QueuedStreamIsTaken ==
    \A s \in Streams :
      (\E i \in 1 .. Len(stream_queue) : stream_queue[i] = s) ~> (takes[s] > 0)

C16_LimitsOfTheRequestsProtocol ==
    \A w \in Workers :
      pc[w] = "handle" =>
        connection[w].request_count < max_requests_per_connection(request[w].version)

\* the state table of the Response builder: the state a call leads to, or
\* "refused"
Table(method, state, version) ==
    CASE method = "status" /\ state = "Clean" /\ version # "Http09" -> "Headers"
      [] method \in HeaderMethods /\ state = "Headers" -> "Headers"
      [] method \in BodyMethods /\ state = "Headers" -> "Complete"
      [] method \in Http09Methods /\ state = "Clean" /\ version = "Http09" ->
           "Complete"
      [] method = "close" /\ state # "Complete" -> state
      [] OTHER -> "refused"

\* the builder call a step of the model made, "reset" when it was none
Called == IF builder'.calls = <<>> THEN "reset"
          ELSE builder'.calls[Len(builder'.calls)]

\* C17: with debug assertions, a builder call that its state table lists
\* moves the Response to the state the table gives, and every other call
\* panics and leaves the Response as it was: nothing leads out of Complete
\* but a reset
C17_BuilderFollowsItsTable ==
    [][ (builder.debug_assertions /\ builder' # builder /\ Called # "reset") =>
          IF Table(Called, builder.resp.state, builder.resp.version) = "refused"
          THEN builder'.panicked /\ builder'.resp = builder.resp
          ELSE /\ ~builder'.panicked
               /\ builder'.resp.state =
                    Table(Called, builder.resp.state, builder.resp.version)
      ]_vars

\* close() was called on a Complete response and panicked
C17_Witness ==
    /\ builder.debug_assertions
    /\ builder.panicked
    /\ builder.resp.state = "Complete"
    /\ builder.calls = <<"status", "body", "close">>

\* a Response finished by body() or body_with() after calls the builder
\* accepted
Finished ==
    /\ builder.debug_assertions
    /\ ~builder.panicked
    /\ builder.calls # <<>>
    /\ builder.calls[Len(builder.calls)] \in BodyMethods

\* the number a sequence of decimal digits shows
RECURSIVE Decimal(_)
Decimal(d) ==
    IF d = <<>> THEN 0
    ELSE Decimal(SubSeq(d, 1, Len(d) - 1)) * 10 + d[Len(d)]

\* C18: in a response finished with body() or body_with() the content-length
\* field holds ten digits that show the number of bytes between the blank
\* line and the end of the buffer, whatever the length of the body
C18_ContentLengthIsBodyLength ==
    Finished =>
      LET buffer == builder.resp.buffer
      IN  \E i \in 2 .. Len(buffer) :
            /\ buffer[i].kind = "blank"
            /\ buffer[i - 1].kind = "slot"
            /\ Len(buffer[i - 1].digits) = 10
            /\ [q |-> buffer[i - 1].digits[1],
                r |-> Decimal(SubSeq(buffer[i - 1].digits, 2, 10))]
                 = buffer_len(SubSeq(buffer, i + 1, Len(buffer)))

\* the connection headers in the buffer
ConnectionHeaders ==
    {builder.resp.buffer[i].text : i \in DOMAIN builder.resp.buffer}
      \cap {"connection: close", "connection: keep-alive"}

\* C19: the response a body call finished carries no connection header when
\* it is HTTP/1.1 and keeps the connection, `connection: keep-alive` when it is
\* HTTP/1.0 and keeps it, and `connection: close` when it does not keep it
C19_ConnectionHeaderByVersion ==
    Finished =>
      ConnectionHeaders =
        IF ~builder.resp.keep_alive THEN {"connection: close"}
        ELSE IF builder.resp.version = "Http10" THEN {"connection: keep-alive"}
        ELSE {}

\* an HTTP/1.0 response that keeps the connection was finished by body()
C19_Witness ==
    /\ Finished
    /\ builder.resp.version = "Http10"
    /\ builder.resp.keep_alive
    /\ builder.calls = <<"status", "body">>
    /\ ConnectionHeaders = {"connection: keep-alive"}

\* C20: a request reaches the handler only if its request line, its header
\* lines and its blank line each end with CR LF
C20_OnlyCrlfReachesTheHandler ==
    parser.at = "handle" =>
      \E n \in 0 .. MaxHeaderLines :
        parser.sent = RequestBytes([i \in 1 .. n + 2 |-> <<"CR", "LF">>])

\* the parse came to an end as an HTTP/1.x request
Parsed1x == parser.at = "handle" /\ parser.version \in {"Http10", "Http11"}
Failed(kind) == parser.at = "error" /\ parser.error = kind

\* the bytes sent after the first blank line, the header terminator
AfterHead(bytes) ==
    LET blank == CRLF \o CRLF
        ends == {i \in 1 .. Len(bytes) - 3 : SubSeq(bytes, i, i + 3) = blank}
    IN  IF ends = {} THEN <<>>
        ELSE SubSeq(bytes, (CHOOSE i \in ends : \A j \in ends : i <= j) + 4,
                    Len(bytes))

\* C21: an HTTP/1.x parse succeeds only with as many bytes after the header
\* terminator as the Content-Length declares, which are then the body, or with
\* none and no body when there is no Content-Length; BodyMismatch carries the
\* declared and the available count, UnexpectedBody the count of the bytes
\* that came without a Content-Length
C21_BodyIsWhatWasDeclared ==
    LET rest == AfterHead(parser.sent)
    IN  /\ Parsed1x =>
             IF parser.content_length = NoNumber
             THEN rest = <<>> /\ parser.body = None
             ELSE Len(rest) = parser.content_length /\ parser.body = rest
        /\ Failed("BodyMismatch") =>
             /\ parser.content_length \notin {NoNumber, Len(rest)}
             /\ parser.data = <<parser.content_length, Len(rest)>>
        /\ Failed("UnexpectedBody") =>
             /\ parser.content_length = NoNumber
             /\ rest # <<>>
             /\ parser.data = <<Len(rest)>>

\* a request with a body of body_size bytes was parsed
C21_Witness ==
    /\ Parsed1x
    /\ parser.content_length = body_size
    /\ parser.body = BodyOf(body_size)

\* a request was refused for a body longer than declared
C21_WitnessTrailing ==
    /\ Failed("BodyMismatch")
    /\ parser.data = <<1, 2>>

\* the number a sequence of decimal digits denotes
DigitsOnly(v) == \A i \in 1 .. Len(v) : v[i] \in {Digits[d] : d \in 1 .. 10}
RECURSIVE Power10(_)
Power10(k) == IF k = 0 THEN 1 ELSE 10 * Power10(k - 1)
RECURSIVE Denoted(_, _)
Denoted(v, i) ==
    IF i > Len(v) THEN 0
    ELSE digit_of(v[i]) * Power10(Len(v) - i) + Denoted(v, i + 1)

\* C29: a Content-Length of ASCII digits that fits usize is accepted when it
\* is at most body_size and gives BodyTooLarge when it is greater; a value with
\* any other byte, or too large for usize, gives InvalidContentLength
C29_ContentLengthIsANumber ==
    \A v \in ContentLengthValues, n \in 0 .. body_size + 1 :
      /\ parser.sent = BodyRequest(HeaderLine(ContentLengthText, v), n)
      /\ parser.at \in {"handle", "error"}
      => IF ~DigitsOnly(v) THEN Failed("InvalidContentLength")
         ELSE IF Denoted(v, 1) > UsizeMax THEN Failed("InvalidContentLength")
         ELSE IF Denoted(v, 1) > body_size THEN Failed("BodyTooLarge")
         ELSE /\ parser.content_length = Denoted(v, 1)
              /\ parser.error \notin {"InvalidContentLength", "BodyTooLarge"}

\* a Content-Length equal to body_size was accepted
C29_Witness ==
    /\ parser.sent = BodyRequest(HeaderLine(ContentLengthText, <<"0", "3">>), body_size)
    /\ Parsed1x
    /\ parser.content_length = body_size

\* a Content-Length one more than usize holds was refused
C29_WitnessOverflow ==
    /\ parser.sent = BodyRequest(HeaderLine(ContentLengthText,
                                             <<"6", "5", "5", "3", "6">>), 0)
    /\ Failed("InvalidContentLength")

\* the header lines of the request sent that are ordinary headers
Ordinary(lines) == {i \in DOMAIN lines : lines[i] = HeaderLine(<<"h">>, <<"v">>)}
ParseEnded == parser.at \in {"handle", "error"}

\* C24 as stated: a request of well-formed header lines is refused with
\* TooManyHeaders exactly when more than header_count of them are ordinary
\* headers, Content-Length and Connection headers not counting
C24_OnlyOrdinaryHeadersCount ==
    \A n \in 0 .. MaxHeaderLines + 2 : \A lines \in [1 .. n -> CountedLines] :
      parser.sent = CountedRequest(lines) /\ ParseEnded
      => (Failed("TooManyHeaders") <=> Cardinality(Ordinary(lines)) > MaxHeaderLines)

\* C24 amended: a request of well-formed header lines is refused with
\* TooManyHeaders exactly when it carries more than header_count header
\* lines, Content-Length and Connection headers counted among them
C24_EveryHeaderCounts ==
    \A n \in 0 .. MaxHeaderLines + 2 : \A lines \in [1 .. n -> CountedLines] :
      parser.sent = CountedRequest(lines) /\ ParseEnded
      => (Failed("TooManyHeaders") <=> n > MaxHeaderLines)

\* header_count ordinary headers and a Content-Length after them were refused
C24_Witness ==
    /\ parser.sent =
         CountedRequest([i \in 1 .. MaxHeaderLines |-> HeaderLine(<<"h">>, <<"v">>)]
                          \o <<HeaderLine(ContentLengthText, <<"0">>)>>)
    /\ Failed("TooManyHeaders")
    /\ Len(parser.named) = MaxHeaderLines

\* the spellings of keep-alive and of close among ConnectionValues
KeepAliveSpellings ==
    {KeepAliveValue, <<"K", "e", "e", "p", "-", "A", "l", "i", "v", "e">>,
     <<"K", "E", "E", "P", "-", "A", "L", "I", "V", "E">>}
CloseSpellings ==
    {CloseValue, <<"C", "l", "o", "s", "e">>, <<"C", "L", "O", "S", "E">>}

C22_WitnessKept ==
    /\ parser.sent =
         ConnectionRequest(Http10Text,
                           HeaderLine(<<"C", "o", "n", "n", "e", "c", "t", "i", "o", "n">>,
                                      <<"K", "e", "e", "p", "-", "A", "l", "i", "v", "e">>))
    /\ Parsed1x
    /\ parser.keep_alive

\* two '/' follow each other in the bytes
DoubleSlash(bytes) ==
    \E i \in 1 .. Len(bytes) - 1 : bytes[i] = "/" /\ bytes[i + 1] = "/"

\* C23 as stated: no successfully parsed URL has a path with two consecutive
\* '/', a request with such a path being refused
C23_NoDoubleSlashIsParsed ==
    parser.at = "handle" => ~DoubleSlash(parser.path)

\* C23 amended: consecutive '/' do not refuse a request; the empty pieces
\* between them are skipped, so GET //a HTTP/1.1 is parsed with the path //a
\* and the one segment a, and no segment of a parsed URL is empty or holds a '/'
C23_EmptySegmentsAreSkipped ==
    /\ \A i \in DOMAIN parser.parts :
         /\ parser.parts[i] # <<>>
         /\ \A k \in DOMAIN parser.parts[i] : parser.parts[i][k] # "/"
    /\ parser.sent = PathRequest(<<"/", "/", "a">>) /\ ParseEnded
       => /\ Parsed1x
          /\ parser.path = <<"/", "/", "a">>
          /\ parser.parts = <<<<"a">>>>

\* a request for /a//a was parsed with its two segments
C23_Witness ==
    /\ parser.sent = PathRequest(<<"/", "a", "/", "/", "a">>)
    /\ Parsed1x
    /\ DoubleSlash(parser.path)
    /\ parser.parts = <<<<"a">>, <<"a">>>>

\* C25: a successfully parsed URL has at most url_parts path segments, the
\* capacity its segment list was allocated with
C25_SegmentsWithinUrlParts ==
    parser.at = "handle" => Len(parser.parts) <= url_parts

\* C26 as stated: without Http09Limits a request that is one line without a
\* version is refused with UnsupportedVersion, the canned 505
C26_VersionlessIsUnsupported ==
    ~http_09_limits =>
      \A m \in 1 .. Len(MethodNames), path \in Paths09 :
        parser.sent = Request09(m, path, CRLF) /\ ParseEnded
        => Failed("UnsupportedVersion")

\* C26 amended: without Http09Limits a request that is one line without a
\* version is refused with InvalidUrl, the canned 400, and no request is ever
\* taken for HTTP/0.9+
C26_VersionlessIsInvalidUrl ==
    ~http_09_limits =>
      /\ parser.version # "Http09"
      /\ \A m \in 1 .. Len(MethodNames), path \in Paths09 :
           parser.sent = Request09(m, path, CRLF) /\ ParseEnded
           => /\ Failed("InvalidUrl")
              /\ StatusOf(parser.error) = "400 Bad Request"

\* GET /a without a version was refused by a server without Http09Limits
C26_Witness ==
    /\ ~http_09_limits
    /\ parser.sent = Request09(1, <<"/", "a">>, CRLF)
    /\ Failed("InvalidUrl")
    /\ parser.version = "Http11"

\* C27: with Http09Limits a request that is one line METHOD SP PATH CRLF is
\* taken as HTTP/0.9+ whatever the method, GET or not
C27_EveryMethodWithoutVersion ==
    http_09_limits =>
      \A m \in 1 .. Len(MethodNames) :
        parser.sent = Request09(m, <<"/", "a">>, CRLF) /\ ParseEnded
        => parser.at = "handle" /\ parser.version = "Http09"

\* the path begins with the segment keep_alive
MarkedPath(path) ==
    /\ Len(path) >= Len(KeepAliveMarker)
    /\ SubSeq(path, 1, Len(KeepAliveMarker)) = KeepAliveMarker
    /\ Len(path) > Len(KeepAliveMarker) => path[Len(KeepAliveMarker) + 1] \in {"/", "?"}

\* C28: a GET line without a version is taken as HTTP/0.9+ with keep_alive
\* exactly when its first segment is keep_alive, that segment then gone from
\* the target; any other path, one that only begins with keep_alive too, is
\* taken with keep_alive false and its target as sent
C28_KeepAliveIsTheFirstSegment ==
    http_09_limits =>
      \A path \in Paths09 :
        parser.sent = Request09(1, path, CRLF) /\ ParseEnded
        => /\ parser.at = "handle"
           /\ parser.version = "Http09"
           /\ parser.keep_alive = MarkedPath(path)
           /\ parser.target =
                IF MarkedPath(path)
                THEN SubSeq(path, Len(KeepAliveMarker) + 1, Len(path))
                ELSE path
           /\ \A i \in DOMAIN parser.parts :
                i = 1 /\ MarkedPath(path) => parser.parts[i] # Tail(KeepAliveMarker)

\* the bytes sent before the body
HeadOf(bytes) == SubSeq(bytes, 1, Len(bytes) - Len(AfterHead(bytes)))

\* C30: a request whose head is not UTF-8 never reaches the handler, so no
\* text the handler gets was converted from bytes that are not UTF-8
C30_OnlyUtf8ReachesTheHandler ==
    /\ parser.at \in {"handle", "read"} => is_utf8(HeadOf(parser.sent))
    /\ parser.at = "read" => parser.text # Undefined

\* the target as sent: the bytes between the first and the second space of the
\* request line
SentTarget(bytes) ==
    LET first == memchr(" ", bytes)
        rest == SubSeq(bytes, first + 2, Len(bytes))
    IN  SubSeq(rest, 1, memchr(" ", rest))

\* the part of a target before its first '?'
BeforeQuery(target) ==
    IF memchr("?", target) = -1 THEN target
    ELSE SubSeq(target, 1, memchr("?", target))

\* the non-empty pieces between the '/' of a path, in order
RECURSIVE Pieces(_)
Pieces(path) ==
    IF path = <<>> THEN <<>>
    ELSE LET slash == memchr("/", path)
             piece == IF slash = -1 THEN path ELSE SubSeq(path, 1, slash)
             rest == IF slash = -1 THEN <<>> ELSE SubSeq(path, slash + 2, Len(path))
         IN  (IF piece = <<>> THEN <<>> ELSE <<piece>>) \o Pieces(rest)

\* C31: the segments of a successfully parsed HTTP/1.x URL are the non-empty
\* pieces between the '/' of the path, the part of the target before '?', in
\* order; no byte of the query string is in a segment
C31_SegmentsAreThePiecesOfThePath ==
    Parsed1x =>
      /\ parser.path = BeforeQuery(SentTarget(parser.sent))
      /\ parser.parts = Pieces(BeforeQuery(SentTarget(parser.sent)))

\* C32: the target of a successfully parsed HTTP/1.x URL is its path followed
\* by the whole query string, the '?' first, when there is a query and is its
\* path otherwise, and the path starts with '/'
C32_TargetIsPathThenQuery ==
    Parsed1x =>
      /\ parser.target = SentTarget(parser.sent)
      /\ parser.path # <<>> /\ Head(parser.path) = "/"
      /\ parser.query = None => parser.target = parser.path
      /\ parser.query # None =>
           /\ Head(parser.query) = "?"
           /\ parser.target = parser.path \o parser.query

\* as_http is called for an error kind, a version and json_errors
InitErrors ==
    /\ InitServer
    /\ http_09_limits
    /\ max_connections = 1 /\ count_503_handlers = 1
    /\ builder = NoBuilder
    /\ \E kind \in ErrorKinds, version \in Versions :
         parser = [at |-> "as_http", kind |-> kind, version |-> version,
                   json |-> json_errors, canned |-> ""]

NextErrors == AsHttp

SpecErrors == InitErrors /\ [][NextErrors]_vars

\* the segments between the '&' of the data, one more than there are '&'
RECURSIVE SplitAmp(_)
SplitAmp(data) ==
    IF memchr("&", data) = -1 THEN <<data>>
    ELSE <<SubSeq(data, 1, memchr("&", data))>>
           \o SplitAmp(SubSeq(data, memchr("&", data) + 2, Len(data)))

\* a segment split once at its first '=', the value empty without one
PairOf(segment) ==
    IF memchr("=", segment) = -1 THEN <<segment, <<>>>>
    ELSE <<SubSeq(segment, 1, memchr("=", segment)),
           SubSeq(segment, memchr("=", segment) + 2, Len(segment))>>

\* the query string without one leading '?'
Unmarked(query) == IF query # <<>> /\ Head(query) = "?" THEN Tail(query) ELSE query

PairsOf(segments) == [i \in DOMAIN segments |-> PairOf(segments[i])]

\* the segments without an empty last one
Terminated(segments) ==
    IF segments[Len(segments)] = <<>> THEN SubSeq(segments, 1, Len(segments) - 1)
    ELSE segments

\* C33 as stated: a parsed query string yields, in order, one pair per segment
\* between the '&' of the string without one leading '?', the segment split
\* once at its first '=', its value empty without one
C33_OnePairPerSegment ==
    parser.at = "parsed" => parser.pairs = PairsOf(SplitAmp(Unmarked(parser.query)))

\* C33 amended: a parsed query string yields, in order, one pair per segment
\* between the '&' of the string without one leading '?', except that an
\* empty segment after the last '&', or an empty string after the '?', gives
\* no pair; an empty segment between two '&' gives the pair of two empty
\* slices
C33_OnePairPerTerminatedSegment ==
    /\ parser.at = "parsed"
       => parser.pairs = PairsOf(Terminated(SplitAmp(Unmarked(parser.query))))
    /\ parser.at = "parsed" /\ parser.query = <<"a", "&", "&", "b">>
       => parser.pairs = <<<<<<"a">>, <<>>>>, <<<<>>, <<>>>>, <<<<"b">>, <<>>>>>>

\* a query string that ends with '&' was parsed into the one pair before it
C33_Witness ==
    /\ parser.at = "parsed"
    /\ parser.query = <<"?", "a", "=", "&">>
    /\ parser.pairs = <<<<<<"a">>, <<>>>>>>

\* a query string with two '=' in its first segment was parsed
C33_WitnessFirstEquals ==
    /\ parser.at = "parsed"
    /\ parser.query = <<"a", "=", "=", "b">>
    /\ parser.pairs = <<<<<<"a">>, <<"=", "b">>>>>>

\* C34: Query::parse fails with Empty when there is nothing to parse: the
\* query string is empty or is only a '?'
C34_NothingToParseIsEmpty ==
    parser.at \in {"parsed", "failed"} /\ parser.query \in {<<>>, <<"?">>}
    => parser.at = "failed" /\ parser.error = "Empty"

\* the place of the first occurrence of a text in a response, 0 for none
FindText(text, sub) ==
    LET hits == {i \in 1 .. Len(text) - Len(sub) + 1 :
                   SubSeq(text, i, i + Len(sub) - 1) = sub}
    IN  IF hits = {} THEN 0 ELSE CHOOSE i \in hits : \A j \in hits : i <= j

\* a response up to the end of its last header line, and what follows the
\* blank line
ResponseHead(text) == SubSeq(text, 1, FindText(text, "\r\n\r\n") + 1)
ResponseBody(text) == SubSeq(text, FindText(text, "\r\n\r\n") + 4, Len(text))

\* the response has the header line
HasLine(text, line) == FindText(ResponseHead(text), "\r\n" \o line \o "\r\n") # 0

\* the value of the header of a response
ValueOf(text, name) ==
    LET from == FindText(ResponseHead(text), "\r\n" \o name \o ": ")
        rest == SubSeq(ResponseHead(text), from + Len(name) + 4,
                       Len(ResponseHead(text)))
    IN  IF from = 0 THEN "" ELSE SubSeq(rest, 1, FindText(rest, "\r\n") - 1)

\* the number a decimal text denotes, -1 when it is not one
RECURSIVE DecimalOf(_)
DecimalOf(text) ==
    LET last == SubSeq(text, Len(text), Len(text))
        front == SubSeq(text, 1, Len(text) - 1)
    IN  IF text = "" \/ \A d \in 0 .. 9 : ToString(d) # last THEN -1
        ELSE IF front = "" THEN CHOOSE d \in 0 .. 9 : ToString(d) = last
        ELSE IF DecimalOf(front) = -1 THEN -1
        ELSE 10 * DecimalOf(front) + (CHOOSE d \in 0 .. 9 : ToString(d) = last)

\* C35: the canned HTTP/1.x response of every error kind is a complete
\* message: a status line of the version, the header connection: close, a
\* content-length that is the length of the body, a blank line and the body:
\* the JSON of the kind with content-type application/json when json_errors
\* is true, nothing and content-length 0 when it is false
C35_CannedErrorIsComplete ==
    parser.at = "canned" /\ parser.version \in {"Http11", "Http10"} =>
      /\ SubSeq(parser.canned, 1, 9) =
           (IF parser.version = "Http11" THEN "HTTP/1.1 " ELSE "HTTP/1.0 ")
      /\ FindText(parser.canned, "\r\n\r\n") # 0
      /\ HasLine(parser.canned, "connection: close")
      /\ DecimalOf(ValueOf(parser.canned, "content-length")) =
           Len(ResponseBody(parser.canned))
      /\ parser.json =>
           /\ HasLine(parser.canned, "content-type: application/json")
           /\ Len(ResponseBody(parser.canned)) > 0
           /\ SubSeq(ResponseBody(parser.canned), 1, 10) = "{\"error\":\""
      /\ ~parser.json =>
           /\ ResponseBody(parser.canned) = ""
           /\ ValueOf(parser.canned, "content-length") = "0"
           /\ ~HasLine(parser.canned, "content-type: application/json")

\* the canned HTTP/1.0 response of TooManyHeaders with its JSON body of 54
\* bytes was taken
C35_Witness ==
    /\ parser.at = "canned"
    /\ parser.kind = "TooManyHeaders" /\ parser.version = "Http10" /\ parser.json
    /\ ValueOf(parser.canned, "content-length") = "54"
    /\ Len(ResponseBody(parser.canned)) = 54

\* the canned HTTP/1.1 response of Io without a body was taken
C35_WitnessEmpty ==
    /\ parser.at = "canned"
    /\ parser.kind = "Io" /\ parser.version = "Http11" /\ ~parser.json
    /\ ResponseBody(parser.canned) = ""

LineStyles == {<<"CR", "LF">>, <<"LF">>}

\* C37: the line ending of the request line, CR LF or a bare LF, binds the
\* rest of the request: when a header line or the blank line ends in the
\* other style the parse fails with InvalidHeader
C37_LineEndingStyleIsBinding ==
    \A n \in 0 .. MaxHeaderLines : \A ends \in [1 .. n + 2 -> LineStyles] :
      /\ parser.sent = RequestBytes(ends)
      /\ ParseEnded
      /\ \E i \in DOMAIN ends : ends[i] # ends[1]
      => Failed("InvalidHeader")

\* the handler has called close() on the Response it holds
Closed(calls) == \E i \in DOMAIN calls : calls[i] = "close"

\* C38: close() is idempotent: a call of close() before the finalizing call
\* leaves keep_alive false, and on a Response close() was already called on
\* it changes nothing, so the bytes serialized afterwards are those after
\* one call
C38_CloseIsIdempotent ==
    [][builder'.calls = Append(builder.calls, "close") /\ ~builder'.panicked
         /\ builder.resp.state # "Complete"
       => /\ ~builder'.resp.keep_alive
          /\ Closed(builder.calls) => builder'.resp = builder.resp]_vars

\* after status, close() was called twice on an HTTP/1.0 Response
C38_Witness ==
    /\ builder.calls = <<"status", "close", "close">>
    /\ ~builder.panicked
    /\ builder.resp.version = "Http10"
    /\ builder.resp.state = "Headers"
    /\ ~builder.resp.keep_alive

\* the server has ended the connection of worker w right after it wrote an
\* HTTP/1.x handler response: impl_run left its loop with Ok
EndedAfterWrite(w) ==
    /\ pc[w] = "drop"
    /\ LastOp(log[w]) = "write"
    /\ response[w].version \in {"Http11", "Http10"}

\* the connection header the response of worker w was written with
Carried(w) == connection_header(response[w].version, response[w].keep_alive)

\* C39 as stated: whenever the server ends a connection after it wrote an
\* HTTP/1.x handler response, that response carried connection: close
C39_ClosedOnlyAfterConnectionClose ==
    \A w \in Workers : EndedAfterWrite(w) => Carried(w) = "connection: close"

\* C39 amended: a connection ended after a written HTTP/1.x response because
\* keep_alive is false had connection: close in that response; one ended with
\* keep_alive true, which happens only when the request limit is reached or
\* the lifetime exceeded, had not: the response said nothing (HTTP/1.1) or
\* connection: keep-alive (HTTP/1.0)
C39_CloseHeaderOnlyWhenNotKeptAlive ==
    \A w \in Workers :
      EndedAfterWrite(w) =>
        /\ ~response[w].keep_alive => Carried(w) = "connection: close"
        /\ response[w].keep_alive =>
             /\ Carried(w) = (IF response[w].version = "Http11" THEN "none"
                              ELSE "connection: keep-alive")
             /\ \/ connection[w].request_count >= ConnMaxRequests
                \/ connection[w].elapsed > ConnLifetime

\* the server ended a connection at its request limit after an HTTP/1.0
\* response that said connection: keep-alive
C39_Witness ==
    \E w \in Workers :
      /\ EndedAfterWrite(w)
      /\ response[w].version = "Http10" /\ response[w].keep_alive
      /\ connection[w].request_count >= ConnMaxRequests
      /\ Carried(w) = "connection: keep-alive"

\* the server ended a connection after a response written with close()
C39_WitnessClose ==
    \E w \in Workers :
      /\ EndedAfterWrite(w)
      /\ ~response[w].keep_alive
      /\ Carried(w) = "connection: close"

\* the parse of the bytes of one read by a Parser that has served no other,
\* run to its end
RECURSIVE ParseOf(_, _)
ParseOf(p, limits) ==
    CASE p.at = "parse_method" -> ParseOf(Parser_parse_method(p), limits)
      [] p.at = "parse_url" -> ParseOf(Parser_parse_url(p, limits), limits)
      [] p.at = "check_http09" -> ParseOf(Parser_check_http09(p, limits), limits)
      [] p.at = "check_version" -> ParseOf(Parser_check_version(p), limits)
      [] p.at = "parse_header" -> ParseOf(parse_header(p), limits)
      [] p.at = "check_body" -> ParseOf(Parser_check_body(p), limits)
      [] OTHER -> p

\* the Parser, the Request and the Response are as another Parser has them
SameAs(p, q) == \A f \in DOMAIN q : p[f] = q[f]

\* C40: a request is parsed from the bytes of one read alone: after each read
\* the buffer holds those bytes and zeros, nothing of the reads before and
\* nothing appended, and the parse ends, at the handler or with an error, as
\* it ends for a new Parser given only those bytes
C40_OneReadOneRequest ==
    /\ parser.at = "parse_method" => SameAs(parser, Parser_read(parser.sent))
    /\ parser.at \in {"handle", "error"}
       => SameAs(parser, ParseOf(Parser_read(parser.sent), http_09_limits))

\* a request came in two reads: the second read, the rest of the request
\* after a longer first part, was parsed by itself and refused
C40_Witness ==
    /\ parser.reads = 2
    /\ parser.before \o parser.sent = BodyRequest(HeaderLine(ContentLengthText, <<"2">>), 2)
    /\ Len(parser.before) > Len(parser.sent)
    /\ parser.sent # <<>>
    /\ parser.at = "error"

\* after a longer request a shorter one was read and handled
C40_WitnessShorter ==
    /\ parser.reads = 2
    /\ parser.before = BodyRequest(HeaderLine(ContentLengthText, <<"2">>), 2)
    /\ parser.sent = FirstLine(GetText, RootPath, Http11Text) \o CRLF
    /\ parser.at = "handle"

====
